---- MODULE Spec2Model ----
(***************************************************************************)
(* Order orchestration and reconciliation core of the Mirakl <-> carrier   *)
(* bridge: the carrier adapters' idempotency cache, the dispatch           *)
(* endpoints, the CSV order store, the webhook endpoints and the GLS       *)
(* OAuth2 token cache.  Every component has its own next-state relation    *)
(* and specification over the shared variables; a component's actions      *)
(* leave the other components' variables unchanged.                        *)
(***************************************************************************)
EXTENDS Integers, Sequences, FiniteSets, TLC

(***************************************************************************)
(* Bounds of the model.                                                    *)
(***************************************************************************)
NumCallers == 2
MaxCalls == 3
MaxTime == 95
MaxExchanges == 3
MaxClock == 4
MaxRuns == 2
MaxDeliveries == 2
MaxRules == 6
MaxTasks == 2
MaxBatch == 2
MaxPagesParam == 3
MaxRequests == 5
MaxRetriesParam == 2
MaxPuts == 5

(***************************************************************************)
(* Constants of the program.                                               *)
(***************************************************************************)
DefaultExpiresIn == 3600
TokenMargin == 60
FiveMinutes == 300
max_timestamp_age == 300

VARIABLES
    \* ---- GlsAdapter / CorreosExAdapter idempotency cache ----
    mock_mode,          \* GlsAdapter.mock_mode
    idempotency_keys,   \* GlsAdapter._idempotency_keys
    callPc,             \* position of each caller inside create_shipment_with_idempotency
    callOrder,          \* the order_data the caller passed
    callResult,         \* what the call returned (or that it raised)
    callHit,            \* whether the caller's cache lookup was a hit
    callsStarted,       \* number of calls begun so far
    createRequests,     \* carrier side: POST /rs/shipments requests received, per key
    createdShipments,   \* carrier side: shipments created, per key
    \* ---- GlsAdapter OAuth2 token cache ----
    now,                \* datetime.utcnow(), in seconds
    access_token,       \* GlsAdapter._access_token
    token_expires_at,   \* GlsAdapter._token_expires_at
    tokPc,              \* position of each caller inside _get_oauth_token
    tokLast,            \* the latest return of _get_oauth_token: what, when, to whom
    tokenRequests,      \* auth server side: token requests received
    \* ---- webhook endpoint and WebhookService ----
    whLast,             \* the latest webhook call (endpoint or WebhookService) and its outcome
    processed_events,   \* WebhookService.processed_events
    \* ---- UnifiedOrderLogger: the orders CSV file ----
    csvHeader,          \* the columns of the file's header line
    csvRows,            \* the data lines of the file, in file order
    clock,              \* datetime.now(): a counter that every handler advances
    storeLast,          \* the latest store-writing call and whether it raised
    glsLog,             \* per webhook event: its payload, deliveries and their outcomes
    \* ---- dispatch endpoints of api/orchestrator.py ----
    carrierShipments,   \* carrier side: shipments created, per carrier and order
    dispatchLast,       \* the latest dispatch request: its inputs and its response
    dispatchRuns,       \* number of dispatch requests handled
    \* ---- rules/selector.py and rules/engine.py ----
    selected,           \* the latest select_carrier call: its order and the code returned
    rules,              \* RulesEngine.rules
    engineLast,         \* the latest get_carrier_for_order call since rules last changed
    \* ---- services/gls_tracking_poller.py ----
    running,            \* GlsTrackingPoller.running
    pollTask,           \* GlsTrackingPoller._task: the task start() created last (0: None)
    tasks,              \* the coroutines of _poll_loop and poll_once: position and cycle data
    pollLast,           \* the latest start() call since the poller last stopped
    cycleBit,           \* parity of the number of cycles _poll_loop has begun
    \* ---- POST /upload-tracking ----
    uploadPc,           \* position of the request inside upload_tracking_to_mirakl
    tracking_data,      \* the request body
    uploadIdx,          \* index of the item the loop is at
    tracking_updates,   \* the entries appended so far
    orders_updated,     \* the counter of successful items
    uploadResponse,     \* the response of the latest request
    \* ---- create_shipments_bulk of the carrier adapters ----
    bulkPc,             \* position of the call inside create_shipments_bulk
    bulkCarrier,        \* the adapter called
    orders_data,        \* the orders passed to the call
    bulkIdx,            \* index of the order whose create_shipment is awaited
    created,            \* the shipments made so far
    failed,             \* the failures collected so far
    \* ---- OrderStorageService, the orders API and POST /post-to-carrier ----
    storedOrders,       \* OrderStorageService.orders, in insertion order
    everStored,         \* the order ids store_order has ever created
    postReq,            \* the post-to-carrier requests in progress: position and locals
    submitted,          \* carrier side: times each order was passed to create_shipments_bulk
    postRuns,           \* number of post-to-carrier requests begun
    \* ---- MiraklAdapter.get_all_orders ----
    gaoPc,              \* position of the call inside get_all_orders
    batch_size,         \* the batch_size argument
    max_pages,          \* the max_pages argument
    offset,             \* the local offset
    pages,              \* the local pages
    all_orders,         \* the local all_orders
    pageRequests,       \* marketplace side: the offsets of the page requests received
    pageBatches,        \* marketplace side: the pages it answered with
    \* ---- core/utils/http_client.py: put_with_retry ----
    putPc,              \* position of the call inside put_with_retry
    max_retries,        \* the max_retries argument
    attempt,            \* the local attempt
    putResponse,        \* the latest response: status code and Retry-After header
    wait_time,          \* the local wait_time
    putsSent            \* server side: PUT requests received

idemVars == <<mock_mode, idempotency_keys, callPc, callOrder, callResult, callHit,
              callsStarted, createRequests, createdShipments>>

tokVars == <<now, access_token, token_expires_at, tokPc, tokLast, tokenRequests>>

whVars == <<whLast, processed_events>>

storeVars == <<csvHeader, csvRows, clock, storeLast, glsLog>>

dispVars == <<carrierShipments, dispatchLast, dispatchRuns>>

ruleVars == <<selected, rules, engineLast>>

pollVars == <<running, pollTask, tasks, pollLast, cycleBit>>

uploadVars == <<uploadPc, tracking_data, uploadIdx, tracking_updates, orders_updated,
                uploadResponse>>

\* The variables of the components added below the poller.
bulkVars == <<bulkPc, bulkCarrier, orders_data, bulkIdx, created, failed>>

storageVars == <<storedOrders, everStored, postReq, submitted, postRuns>>

pageVars == <<gaoPc, batch_size, max_pages, offset, pages, all_orders, pageRequests,
              pageBatches>>

retryVars == <<putPc, max_retries, attempt, putResponse, wait_time, putsSent>>

otherVars == <<uploadVars, bulkVars, storageVars, pageVars, retryVars>>

vars == <<idemVars, tokVars, whVars, storeVars, dispVars, ruleVars, pollVars, otherVars>>

\* What the actions of one component leave unchanged.
exceptIdem == <<tokVars, whVars, storeVars, dispVars, ruleVars, pollVars, otherVars>>

exceptTok == <<idemVars, whVars, storeVars, dispVars, ruleVars, pollVars, otherVars>>

exceptWh == <<idemVars, tokVars, storeVars, dispVars, ruleVars, pollVars, otherVars>>

exceptStore == <<idemVars, tokVars, whVars, dispVars, ruleVars, pollVars, otherVars>>

exceptStoreAndDispatch == <<idemVars, tokVars, whVars, ruleVars, pollVars, otherVars>>

exceptRules == <<idemVars, tokVars, whVars, storeVars, dispVars, pollVars, otherVars>>

exceptPoller == <<idemVars, tokVars, whVars, dispVars, ruleVars, otherVars>>

earlierVars == <<idemVars, tokVars, whVars, storeVars, dispVars, ruleVars, pollVars>>

exceptUpload == <<earlierVars, bulkVars, storageVars, pageVars, retryVars>>

exceptBulk == <<earlierVars, uploadVars, storageVars, pageVars, retryVars>>

exceptStorage == <<earlierVars, uploadVars, bulkVars, pageVars, retryVars>>

exceptPages == <<earlierVars, uploadVars, bulkVars, storageVars, retryVars>>

exceptRetry == <<earlierVars, uploadVars, bulkVars, storageVars, pageVars>>

(***************************************************************************)
(* Orders as the adapters see them.  OrderA2 is OrderA with another postal *)
(* code; OrderA3 is OrderA with another customer name only.                *)
(***************************************************************************)
OrderA == [order_id |-> "A", weight |-> 2, postal_code |-> "28001", city |-> "Madrid", customer_name |-> "Ana"]
OrderA2 == [order_id |-> "A", weight |-> 2, postal_code |-> "08001", city |-> "Madrid", customer_name |-> "Ana"]
OrderA3 == [order_id |-> "A", weight |-> 2, postal_code |-> "28001", city |-> "Madrid", customer_name |-> "Eva"]
OrderB == [order_id |-> "B", weight |-> 25, postal_code |-> "28001", city |-> "Madrid", customer_name |-> "Ben"]

IdemOrders == {OrderA, OrderA2, OrderA3, OrderB}

Callers == 1..NumCallers

NoOrder == [order_id |-> "-"]

NoResult == [kind |-> "none"]

\* _generate_idempotency_key: the first 16 hex digits of the SHA-256 of
\* "{order_id}_{weight}_{postal_code}_{city}".  The digest is modelled by the
\* tuple it is computed from (no collisions between the modelled orders).
GenerateIdempotencyKey(order_data) ==
    <<order_data.order_id, order_data.weight, order_data.postal_code, order_data.city>>

IdemKeys == {GenerateIdempotencyKey(o) : o \in IdemOrders}

\* _get_cached_shipment: a synthetic record derived from the key alone.
GetCachedShipment(key) ==
    [kind |-> "cached", track_id |-> <<"CACHED", key>>]

\* A lookup that never finds the key (the guard removed).
IdempotentHitNever(key, keys) == FALSE

\* The cache lookup of create_shipment_with_idempotency.
IdempotentHit(key, keys) == key \in keys

\* A cache that takes the key before the creation is known to have succeeded.
AddKeyBeforeCreate(keys, key, succeeded) == keys \cup {key}

\* res = await self.create_shipment(order_data); self._idempotency_keys.add(key):
\* an exception of create_shipment leaves the method before the add.
AfterCreateShipment(keys, key, succeeded) ==
    IF succeeded THEN keys \cup {key} ELSE keys

IdemInit ==
    /\ mock_mode \in BOOLEAN
    /\ idempotency_keys = {}
    /\ callPc = [p \in Callers |-> "idle"]
    /\ callOrder = [p \in Callers |-> NoOrder]
    /\ callResult = [p \in Callers |-> NoResult]
    /\ callHit = [p \in Callers |-> FALSE]
    /\ callsStarted = 0
    /\ createRequests = [k \in IdemKeys |-> 0]
    /\ createdShipments = [k \in IdemKeys |-> 0]

(***************************************************************************)
(* create_shipment_with_idempotency, up to its first suspension.  On a hit *)
(* the synthetic cached record is returned.  On a miss in mock mode        *)
(* _create_shipment_mock runs without suspending and the key is added.  On *)
(* a miss in real mode the caller goes on to _create_shipment_real, which  *)
(* awaits _headers() before it posts.                                      *)
(***************************************************************************)
CallBegin(p, o) ==
    LET key == GenerateIdempotencyKey(o) IN
    /\ callPc[p] = "idle"
    /\ callsStarted < MaxCalls
    /\ callsStarted' = callsStarted + 1
    /\ callOrder' = [callOrder EXCEPT ![p] = o]
    /\ IF IdempotentHit(key, idempotency_keys)
       THEN /\ callHit' = [callHit EXCEPT ![p] = TRUE]
            /\ callResult' = [callResult EXCEPT ![p] = GetCachedShipment(key)]
            /\ callPc' = [callPc EXCEPT ![p] = "done"]
            /\ UNCHANGED <<idempotency_keys>>
       ELSE /\ callHit' = [callHit EXCEPT ![p] = FALSE]
            /\ IF mock_mode
               THEN /\ callResult' = [callResult EXCEPT ![p] =
                                        [kind |-> "created", track_id |-> <<"GLS", o.order_id>>]]
                    /\ idempotency_keys' = AfterCreateShipment(idempotency_keys, key, TRUE)
                    /\ callPc' = [callPc EXCEPT ![p] = "done"]
               ELSE /\ callResult' = [callResult EXCEPT ![p] = NoResult]
                    /\ callPc' = [callPc EXCEPT ![p] = "headers"]
                    /\ UNCHANGED idempotency_keys
    /\ UNCHANGED <<mock_mode, createRequests, createdShipments>>

\* _create_shipment_real after _headers(): the token exchange failed and the
\* call raises before any request is posted.
CallHeadersFail(p) ==
    /\ callPc[p] = "headers"
    /\ callResult' = [callResult EXCEPT ![p] = [kind |-> "raised"]]
    /\ idempotency_keys' = AfterCreateShipment(idempotency_keys,
                                                GenerateIdempotencyKey(callOrder[p]), FALSE)
    /\ callPc' = [callPc EXCEPT ![p] = "done"]
    /\ UNCHANGED <<mock_mode, callOrder, callHit, callsStarted,
                   createRequests, createdShipments>>

\* _create_shipment_real posts the shipment and suspends until the response.
CallPost(p) ==
    LET key == GenerateIdempotencyKey(callOrder[p]) IN
    /\ callPc[p] = "headers"
    /\ createRequests' = [createRequests EXCEPT ![key] = @ + 1]
    /\ callPc' = [callPc EXCEPT ![p] = "posted"]
    /\ UNCHANGED <<mock_mode, idempotency_keys, callOrder, callResult, callHit,
                   callsStarted, createdShipments>>

\* The carrier created the shipment: the call records the key and returns.
CallCreated(p) ==
    LET key == GenerateIdempotencyKey(callOrder[p]) IN
    /\ callPc[p] = "posted"
    /\ createdShipments' = [createdShipments EXCEPT ![key] = @ + 1]
    /\ callResult' = [callResult EXCEPT ![p] =
                        [kind |-> "created",
                         track_id |-> <<"GLS", callOrder[p].order_id, createdShipments[key] + 1>>]]
    /\ idempotency_keys' = AfterCreateShipment(idempotency_keys, key, TRUE)
    /\ callPc' = [callPc EXCEPT ![p] = "done"]
    /\ UNCHANGED <<mock_mode, callOrder, callHit, callsStarted, createRequests>>

\* The request timed out or was answered with an error status: the call
\* raises and the key is not recorded.
CallFailed(p) ==
    /\ callPc[p] = "posted"
    /\ callResult' = [callResult EXCEPT ![p] = [kind |-> "raised"]]
    /\ idempotency_keys' = AfterCreateShipment(idempotency_keys,
                                                GenerateIdempotencyKey(callOrder[p]), FALSE)
    /\ callPc' = [callPc EXCEPT ![p] = "done"]
    /\ UNCHANGED <<mock_mode, callOrder, callHit, callsStarted,
                   createRequests, createdShipments>>

\* The caller has its result and may call again.
CallReturn(p) ==
    /\ callPc[p] = "done"
    /\ callPc' = [callPc EXCEPT ![p] = "idle"]
    /\ UNCHANGED <<mock_mode, idempotency_keys, callOrder, callResult, callHit,
                   callsStarted, createRequests, createdShipments>>

(***************************************************************************)
(* GlsAdapter._get_oauth_token.                                            *)
(***************************************************************************)
\* Python's None and a present value: optional values are sequences of
\* length zero or one.
None == <<>>

Some(x) == <<x>>

Val(opt) == opt[1]

\* The clock advances in steps of these many seconds.
ClockSteps == {30, 31}

\* The expires_in field of a token response; None when the field is absent.
ExpiresInValues == {Some(30), Some(90), Some(121), None}

\* The access_token field of a token response.
TokenTexts == {"", "T"}

\* A token as issued by the auth server: no two exchanges issue the same
\* token, which the record of the exchange stands for.
IssuedToken(text, at, expires_in) ==
    [text |-> text, issued_at |-> at, expires_in |-> expires_in]

\* data.get("expires_in", 3600)
ExpiresIn(field) == IF field = None THEN DefaultExpiresIn ELSE Val(field)

\* The validity test with the boundary included.
TokenValidInclusive(token, expires_at, t) ==
    /\ token # None
    /\ Val(token).text # ""
    /\ expires_at # None
    /\ t <= Val(expires_at)

\* if self._access_token and self._token_expires_at:
\*     if datetime.utcnow() < self._token_expires_at:
TokenValid(token, expires_at, t) ==
    /\ token # None
    /\ Val(token).text # ""
    /\ expires_at # None
    /\ t < Val(expires_at)

\* datetime.utcnow() + timedelta(seconds=expires_in - 60)
ExpiresAt(t, expires_in) == t + (expires_in - TokenMargin)

NoReturn == [kind |-> "none", token |-> IssuedToken("", 0, 0), at |-> 0, caller |-> 0]

TokInit ==
    /\ now = 0
    /\ access_token = None
    /\ token_expires_at = None
    /\ tokPc = [p \in Callers |-> "idle"]
    /\ tokLast = NoReturn
    /\ tokenRequests = 0

\* _get_oauth_token up to its first suspension: a valid token is returned
\* from the cache, otherwise the token request is posted.
TokenGet(p) ==
    /\ tokPc[p] = "idle"
    /\ IF TokenValid(access_token, token_expires_at, now)
       THEN /\ tokLast' = [kind |-> "cached", token |-> Val(access_token),
                           at |-> now, caller |-> p]
            /\ UNCHANGED <<tokPc, tokenRequests>>
       ELSE /\ tokenRequests < MaxExchanges
            /\ tokenRequests' = tokenRequests + 1
            /\ tokPc' = [tokPc EXCEPT ![p] = "exchanging"]
            /\ UNCHANGED tokLast
    /\ UNCHANGED <<now, access_token, token_expires_at>>

\* The auth server answered: the token and its expiry are stored together
\* and the new token is returned.
TokenExchanged(p, text, field) ==
    LET token == IssuedToken(text, now, ExpiresIn(field)) IN
    /\ tokPc[p] = "exchanging"
    /\ access_token' = Some(token)
    /\ token_expires_at' = Some(ExpiresAt(now, ExpiresIn(field)))
    /\ tokLast' = [kind |-> "fresh", token |-> token, at |-> now, caller |-> p]
    /\ tokPc' = [tokPc EXCEPT ![p] = "idle"]
    /\ UNCHANGED <<now, tokenRequests>>

\* The token request failed: the call raises and the cache is left as it was.
TokenExchangeFailed(p) ==
    /\ tokPc[p] = "exchanging"
    /\ tokLast' = [NoReturn EXCEPT !.kind = "raised", !.at = now, !.caller = p]
    /\ tokPc' = [tokPc EXCEPT ![p] = "idle"]
    /\ UNCHANGED <<now, access_token, token_expires_at, tokenRequests>>

\* Time passes.
Tick(d) ==
    /\ now + d <= MaxTime
    /\ now' = now + d
    /\ UNCHANGED <<access_token, token_expires_at, tokPc, tokLast, tokenRequests>>

TokNext ==
    \/ \E p \in Callers : TokenGet(p) /\ UNCHANGED exceptTok
    \/ \E p \in Callers, text \in TokenTexts, field \in ExpiresInValues :
           TokenExchanged(p, text, field) /\ UNCHANGED exceptTok
    \/ \E p \in Callers : TokenExchangeFailed(p) /\ UNCHANGED exceptTok
    \/ \E d \in ClockSteps : Tick(d) /\ UNCHANGED exceptTok

(***************************************************************************)
(* api/carriers.py receive_webhook and core/webhook_service.py.            *)
(***************************************************************************)

\* CARRIER_ADAPTERS of api/carriers.py whose adapter classes are present.
WebhookAdapters == {"tipsa", "correosex"}

\* Carrier path parameters of the requests: the adapters and an unknown one.
WebhookCarriers == WebhookAdapters \cup {"acme"}

\* WEBHOOK_SECRETS / WebhookService.webhook_secrets
WebhookSecret(carrier) ==
    CASE carrier = "tipsa" -> Some("tipsa_webhook_secret_2025")
      [] carrier = "correosex" -> Some("correosex_webhook_secret_2025")
      [] OTHER -> None

\* Adapters that define validate_webhook_signature and process_webhook_event.
HasWebhookMethods(carrier) == carrier = "correosex"

\* Request bodies: two JSON events (the second without an event_id) and one
\* body that is not JSON.
WebhookBodies ==
    { [name |-> "e1", json |-> TRUE, event_id |-> "evt-1", expedition_id |-> "X1",
       status |-> "DELIVERED"],
      [name |-> "e2", json |-> TRUE, event_id |-> "", expedition_id |-> "X2",
       status |-> "IN_TRANSIT"],
      [name |-> "bad", json |-> FALSE, event_id |-> "", expedition_id |-> "",
       status |-> ""] }

\* hashlib.sha256(f"{payload}{secret}").hexdigest(): the digest is modelled
\* by the algorithm and the text it is computed from.
Sha256Concat(payload, secret) == <<"sha256", payload, secret>>

\* hmac.new(secret, payload, hashlib.sha256).hexdigest()
GenerateSignature(payload, secret) == <<"hmac-sha256", payload, secret>>

\* What the sender put in X-Signature.
SignatureKinds == {"none", "sha256-concat", "hmac-sha256", "wrong-secret", "other-body"}

SignatureHeader(kind, body, carrier) ==
    LET secret == IF WebhookSecret(carrier) = None THEN "" ELSE Val(WebhookSecret(carrier)) IN
    CASE kind = "none" -> None
      [] kind = "sha256-concat" -> Some(Sha256Concat(body.name, secret))
      [] kind = "hmac-sha256" -> Some(GenerateSignature(body.name, secret))
      [] kind = "wrong-secret" -> Some(GenerateSignature(body.name, "guess"))
      [] OTHER -> Some(Sha256Concat("zz", secret))

\* Seconds between the instant X-Timestamp denotes and utcnow() at receipt.
TimestampAges == {0, 300, 301}

\* X-Timestamp: absent, unparseable, or an ISO-8601 time without ("naive") or
\* with ("aware", e.g. a trailing Z) a UTC offset.
TimestampHeaders ==
    {None, Some([kind |-> "invalid", age |-> 0])}
        \cup {Some([kind |-> k, age |-> a]) : k \in {"naive", "aware"}, a \in TimestampAges}

\* A freshness test that lets every timestamp pass.
TimestampTooOldNever(age, limit) == FALSE

\* datetime.utcnow() - timestamp > timedelta(minutes=5)
TimestampTooOld(age, limit) == age > limit

\* The timestamp block of both validators: skipped without a header;
\* fromisoformat raises ValueError on an unparseable text; subtracting an
\* aware datetime from utcnow() raises TypeError.
CheckTimestamp(x_timestamp, limit) ==
    IF x_timestamp = None THEN "ok"
    ELSE IF Val(x_timestamp).kind = "invalid" THEN "value_error"
    ELSE IF Val(x_timestamp).kind = "aware" THEN "type_error"
    ELSE IF TimestampTooOld(Val(x_timestamp).age, limit) THEN "too_old"
    ELSE "ok"

\* CorreosExAdapter.validate_webhook_signature
ValidateWebhookSignature(payload, signature, secret) ==
    signature = Sha256Concat(payload, secret)

HttpError(code) == [code |-> code, status |-> "error", error |-> TRUE, processed |-> FALSE]

\* The return of the generic except clause: sent with the route's default code.
ProcessingFailed == [code |-> 200, status |-> "accepted", error |-> TRUE, processed |-> FALSE]

Accepted == [code |-> 200, status |-> "accepted", error |-> FALSE, processed |-> TRUE]

\* receive_webhook, from the carrier lookup to the response.
ReceiveWebhookResponse(carrier, x_signature, x_timestamp, body) ==
    LET check == CheckTimestamp(x_timestamp, FiveMinutes) IN
    IF carrier \notin WebhookAdapters THEN HttpError(400)
    ELSE IF WebhookSecret(carrier) = None THEN HttpError(500)
    ELSE IF check \in {"too_old", "value_error"} THEN HttpError(400)
    ELSE IF check = "type_error" THEN ProcessingFailed
    ELSE IF x_signature # None /\ ~HasWebhookMethods(carrier) THEN ProcessingFailed
    ELSE IF x_signature # None
            /\ ~ValidateWebhookSignature(body.name, Val(x_signature), Val(WebhookSecret(carrier)))
         THEN HttpError(401)
    ELSE IF ~body.json THEN ProcessingFailed
    ELSE IF ~HasWebhookMethods(carrier) THEN ProcessingFailed
    ELSE Accepted

NoWebhook ==
    [op |-> "none", carrier |-> "", sig |-> "none", x_signature |-> None,
     x_timestamp |-> None, body |-> "",
     response |-> [code |-> 0, status |-> "", error |-> FALSE, processed |-> FALSE]]

WhInit ==
    /\ whLast = NoWebhook
    /\ processed_events = {}

\* POST /webhooks/{carrier}
ReceiveWebhook(carrier, kind, x_timestamp, body) ==
    LET x_signature == SignatureHeader(kind, body, carrier) IN
    /\ whLast' = [op |-> "receive_webhook", carrier |-> carrier, sig |-> kind,
                  x_signature |-> x_signature, x_timestamp |-> x_timestamp,
                  body |-> body.name,
                  response |-> ReceiveWebhookResponse(carrier, x_signature, x_timestamp, body)]
    /\ UNCHANGED <<processed_events>>

\* WebhookService.validate_webhook: any exception (a missing signature given
\* to compare_digest, an aware timestamp) ends in return False.
ValidateWebhook(body, signature, timestamp, carrier) ==
    LET check == CheckTimestamp(timestamp, max_timestamp_age) IN
    IF check # "ok" THEN FALSE
    ELSE IF WebhookSecret(carrier) = None THEN FALSE
    ELSE IF signature = None THEN FALSE
    ELSE Val(signature) = GenerateSignature(body.name, Val(WebhookSecret(carrier)))

ServiceResult(status) == [code |-> 0, status |-> status, error |-> FALSE, processed |-> FALSE]

\* A caller of WebhookService.validate_webhook.
ServiceValidate(carrier, kind, timestamp, body) ==
    LET signature == SignatureHeader(kind, body, carrier) IN
    /\ whLast' = [op |-> "validate_webhook", carrier |-> carrier, sig |-> kind,
                  x_signature |-> signature, x_timestamp |-> timestamp, body |-> body.name,
                  response |-> ServiceResult(
                      IF ValidateWebhook(body, signature, timestamp, carrier)
                      THEN "valid" ELSE "invalid")]
    /\ UNCHANGED <<processed_events>>

\* event_data.get("event_id") or event_data.get("id"), else the digest of the
\* canonical JSON of the event.
EventId(body) == IF body.event_id # "" THEN body.event_id ELSE "sha-" \o body.name

\* WebhookService.process_webhook_event
ServiceProcess(carrier, body) ==
    /\ body.json
    /\ IF EventId(body) \in processed_events
       THEN /\ whLast' = [NoWebhook EXCEPT !.op = "process_webhook_event",
                                           !.carrier = carrier, !.body = body.name,
                                           !.response = ServiceResult("duplicate")]
            /\ UNCHANGED processed_events
       ELSE /\ processed_events' = processed_events \cup {EventId(body)}
            /\ whLast' = [NoWebhook EXCEPT !.op = "process_webhook_event",
                                           !.carrier = carrier, !.body = body.name,
                                           !.response = [ServiceResult("processed")
                                                           EXCEPT !.processed = TRUE]]

WhNext ==
    \/ \E carrier \in WebhookCarriers, kind \in SignatureKinds,
          x_timestamp \in TimestampHeaders, body \in WebhookBodies :
           ReceiveWebhook(carrier, kind, x_timestamp, body) /\ UNCHANGED exceptWh
    \/ \E carrier \in WebhookCarriers, kind \in SignatureKinds,
          timestamp \in TimestampHeaders, body \in WebhookBodies :
           ServiceValidate(carrier, kind, timestamp, body) /\ UNCHANGED exceptWh
    \/ \E carrier \in WebhookAdapters, body \in WebhookBodies :
           ServiceProcess(carrier, body) /\ UNCHANGED exceptWh

(***************************************************************************)
(* core/unified_order_logger.py: the CSV order store.  A row is a function *)
(* from the header's columns to text; the other columns of the real file   *)
(* behave like the ones kept here.                                         *)
(***************************************************************************)

\* The columns _write_headers puts in a new file (those the model keeps).
InitialHeader ==
    {"order_id", "created_at", "updated_at", "internal_state", "carrier_code",
     "tracking_number"}

OrderIds == {"A", "B"}

\* The five states of the lifecycle and the one the dispatch endpoints write.
InternalStates ==
    {"PENDING_POST", "POSTED", "AWAITING_TRACKING", "CONFIRMED", "DELIVERED", "MIRAKL_OK"}

\* datetime.now().isoformat()
IsoFormat(t) == "t" \o ToString(t)

\* dict.update / {**a, **b}: the keys of both, b's values winning.
MergeFields(row, fields) ==
    [c \in (DOMAIN row) \cup (DOMAIN fields) |->
        IF c \in DOMAIN fields THEN fields[c] ELSE row[c]]

\* _read_csv: the rows with a non-empty order_id, in file order.
ReadCsv(rows) == SelectSeq(rows, LAMBDA r : r["order_id"] # "")

\* Position of an order in the dictionary _read_csv returns (0: absent).
IndexOfOrder(orders, order_id) ==
    IF \E i \in 1..Len(orders) : orders[i]["order_id"] = order_id
    THEN CHOOSE i \in 1..Len(orders) : orders[i]["order_id"] = order_id
    ELSE 0

\* DictWriter writes a row's value for each field name and "" for a missing one.
DictToList(row, fieldnames) ==
    [c \in fieldnames |-> IF c \in DOMAIN row THEN row[c] ELSE ""]

\* Number of leading rows DictWriter accepts: it raises ValueError at the
\* first row that has a key outside fieldnames.
WritableRows(orders, fieldnames) ==
    IF \E i \in 1..Len(orders) : ~((DOMAIN orders[i]) \subseteq fieldnames)
    THEN (CHOOSE i \in 1..Len(orders) :
              /\ ~((DOMAIN orders[i]) \subseteq fieldnames)
              /\ \A j \in 1..(i - 1) : (DOMAIN orders[j]) \subseteq fieldnames) - 1
    ELSE Len(orders)

\* _write_csv: nothing for an empty dictionary; otherwise the file is opened
\* for writing (truncated), the header is the key list of the first row, and
\* the rows are written one by one until one is refused.
WriteCsv(header, rows, orders) ==
    IF orders = <<>> THEN [header |-> header, rows |-> rows, raised |-> FALSE]
    ELSE LET fieldnames == DOMAIN orders[1]
             n == WritableRows(orders, fieldnames)
         IN [header |-> fieldnames,
             rows |-> [i \in 1..n |-> DictToList(orders[i], fieldnames)],
             raised |-> n < Len(orders)]

\* upsert_order between _read_csv and _write_csv.
UpsertedOrders(orders, order_id, fields, t) ==
    LET i == IndexOfOrder(orders, order_id) IN
    IF i > 0
    THEN [orders EXCEPT ![i] = MergeFields(MergeFields(@, fields),
                                            [c \in {"updated_at"} |-> IsoFormat(t)])]
    ELSE Append(orders,
                MergeFields([c \in {"order_id", "created_at", "updated_at"} |->
                                IF c = "order_id" THEN order_id ELSE IsoFormat(t)],
                            fields))

\* upsert_order: the file after the call, and whether the call raised.
UpsertOrderResult(header, rows, order_id, fields, t) ==
    WriteCsv(header, rows, UpsertedOrders(ReadCsv(rows), order_id, fields, t))

\* get_order
GetOrder(rows, order_id) ==
    LET orders == ReadCsv(rows) IN
    IF IndexOfOrder(orders, order_id) > 0
    THEN Some(orders[IndexOfOrder(orders, order_id)])
    ELSE None

NoStoreCall == [op |-> "none", order_id |-> "", raised |-> FALSE]

GlsEventIds == {"g1"}

NoPayload == [tracking_number |-> "", status |-> "", order_reference |-> ""]

StoreInit ==
    /\ csvHeader = InitialHeader
    /\ csvRows = <<>>
    /\ clock = 1
    /\ storeLast = NoStoreCall
    /\ glsLog = [e \in GlsEventIds |->
                    [payload |-> NoPayload, count |-> 0, found |-> 0, mutations |-> 0,
                     code |-> 0, duplicate |-> FALSE]]

\* Field dictionaries callers of upsert_order pass (the tests and the
\* endpoints): a state alone, a state with the carrier fields, carrier status
\* columns that are not in the initial header.
UpsertFields ==
    {[c \in {"internal_state"} |-> st] : st \in {"PENDING_POST", "POSTED", "DELIVERED"}}
        \cup {[internal_state |-> "POSTED", carrier_code |-> "gls", tracking_number |-> "T1"]}
        \cup {[carrier_status |-> "DELIVERED", tracking_events |-> "[]"]}

\* A call of unified_order_logger.upsert_order(order_id, fields).
UpsertOrder(order_id, fields) ==
    LET res == UpsertOrderResult(csvHeader, csvRows, order_id, fields, clock) IN
    /\ clock < MaxClock
    /\ clock' = clock + 1
    /\ csvHeader' = res.header
    /\ csvRows' = res.rows
    /\ storeLast' = [op |-> "upsert_order", order_id |-> order_id, raised |-> res.raised]
    /\ UNCHANGED glsLog


(***************************************************************************)
(* rules/selector.py and the dispatch endpoint POST /load-orders.          *)
(***************************************************************************)

\* Orders as the marketplace returns them.
MiraklOrder(order_id) ==
    IF order_id = "A"
    THEN [order_id |-> "A", created_at |-> "m1", weight |-> 2, payment_method |-> "CARD",
          shipping_speed |-> "STANDARD", country |-> "ES"]
    ELSE [order_id |-> order_id, created_at |-> "m2", weight |-> 5, payment_method |-> "CARD",
          shipping_speed |-> "STANDARD", country |-> "FR"]

\* What mirakl_adapter.get_orders returns: a list of orders, or None when the
\* call raises.
MiraklResponses ==
    {None, Some(<<>>)}
        \cup {Some(<<MiraklOrder(a)>>) : a \in OrderIds}
        \cup {Some(<<MiraklOrder(ab[1]), MiraklOrder(ab[2])>>) :
                  ab \in {x \in OrderIds \X OrderIds : x[1] # x[2]}}

OrdersOf(mirakl) == IF mirakl = None THEN <<>> ELSE Val(mirakl)

OrderIdsOf(mirakl) == {OrdersOf(mirakl)[i].order_id : i \in 1..Len(OrdersOf(mirakl))}

\* select_carrier
SelectCarrier(order) ==
    IF order.weight > 20 THEN "tipsa"
    ELSE IF order.payment_method = "COD" THEN "tipsa"
    ELSE IF order.shipping_speed = "EXPRESS" THEN "dhl"
    ELSE IF order.country # "ES" THEN "dhl"
    ELSE "tipsa"

DispatchCarriers == {"tipsa", "dhl"}

AllCarriers == DispatchCarriers \cup {"gls"}

\* How a carrier's create_shipments_bulk ends in one request: "ok", or the
\* text str(e) of the exception it raises, which is empty for an exception
\* raised without a message.
BulkOutcomes == {"ok", "HTTP 500", ""}

RECURSIVE CarriersInOrder(_)
\* The keys of carriers_groups, in insertion order.
CarriersInOrder(orders) ==
    IF orders = <<>> THEN <<>>
    ELSE LET rest == CarriersInOrder(SubSeq(orders, 1, Len(orders) - 1))
             c == SelectCarrier(orders[Len(orders)])
         IN IF \E i \in 1..Len(rest) : rest[i] = c THEN rest ELSE Append(rest, c)

\* carriers_groups[carrier_code]
GroupOf(orders, carrier_code) ==
    SelectSeq(orders, LAMBDA o : SelectCarrier(o) = carrier_code)

\* A shipment of the bulk result.
ShipmentFor(order, carrier_code) == [order_id |-> order.order_id, carrier |-> carrier_code]

BulkShipments(order_list, carrier_code) ==
    [i \in 1..Len(order_list) |-> ShipmentFor(order_list[i], carrier_code)]

\* The except branch that throws away what the other carriers created.
GroupFailedDiscard(acc, carrier_code, order_list, text) ==
    [shipments |-> <<>>,
     breakdown |-> [c \in (DOMAIN acc.breakdown) \cup {carrier_code} |->
                      [orders |-> Len(order_list), shipments |-> 0, error |-> Some(text)]]]

\* The except branch of the carrier loop: the group's breakdown gets
\* "shipments": 0 and "error": str(e); the loop continues.
GroupFailed(acc, carrier_code, order_list, text) ==
    [shipments |-> acc.shipments,
     breakdown |-> [c \in (DOMAIN acc.breakdown) \cup {carrier_code} |->
                      IF c = carrier_code
                      THEN [orders |-> Len(order_list), shipments |-> 0, error |-> Some(text)]
                      ELSE acc.breakdown[c]]]

\* The try branch of the carrier loop.
GroupCreated(acc, carrier_code, order_list) ==
    [shipments |-> acc.shipments \o BulkShipments(order_list, carrier_code),
     breakdown |-> [c \in (DOMAIN acc.breakdown) \cup {carrier_code} |->
                      IF c = carrier_code
                      THEN [orders |-> Len(order_list), shipments |-> Len(order_list),
                            error |-> None]
                      ELSE acc.breakdown[c]]]

RECURSIVE CarrierLoop(_, _, _)
\* for carrier_code, order_list in carriers_groups.items(): ...
CarrierLoop(carriers, orders, outcome) ==
    IF carriers = <<>> THEN [shipments |-> <<>>, breakdown |-> <<>>]
    ELSE LET acc == CarrierLoop(SubSeq(carriers, 1, Len(carriers) - 1), orders, outcome)
             c == carriers[Len(carriers)]
         IN IF outcome[c] = "ok"
            THEN GroupCreated(acc, c, GroupOf(orders, c))
            ELSE GroupFailed(acc, c, GroupOf(orders, c), outcome[c])

\* The response of load_orders_and_create_shipments.
LoadOrdersResponse(mirakl, outcome) ==
    IF mirakl = None
    THEN [code |-> 500, success |-> FALSE, shipments |-> <<>>, breakdown |-> <<>>]
    ELSE LET res == CarrierLoop(CarriersInOrder(Val(mirakl)), Val(mirakl), outcome)
         IN [code |-> 200, success |-> TRUE, shipments |-> res.shipments,
             breakdown |-> res.breakdown]

\* The carrier-side ledger after the shipments of one request were created.
Shipped(ledger, shipments) ==
    [c \in AllCarriers |-> [o \in OrderIds |->
        ledger[c][o] + Cardinality({i \in 1..Len(shipments) :
                                      shipments[i].carrier = c /\ shipments[i].order_id = o})]]

NoDispatch ==
    [op |-> "none", mirakl |-> None, outcome |-> [c \in DispatchCarriers |-> "ok"],
     response |-> [code |-> 0, success |-> FALSE, shipments |-> <<>>, breakdown |-> <<>>]]

DispInit ==
    /\ carrierShipments = [c \in AllCarriers |-> [o \in OrderIds |-> 0]]
    /\ dispatchLast = NoDispatch
    /\ dispatchRuns = 0

\* POST /load-orders
LoadOrders(mirakl, outcome) ==
    LET response == LoadOrdersResponse(mirakl, outcome) IN
    /\ dispatchRuns < MaxRuns
    /\ dispatchRuns' = dispatchRuns + 1
    /\ carrierShipments' = Shipped(carrierShipments, response.shipments)
    /\ dispatchLast' = [op |-> "load_orders", mirakl |-> mirakl, outcome |-> outcome,
                        response |-> response]

(***************************************************************************)
(* POST /fetch-orders, POST /mirakl-to-gls and                             *)
(* POST /gls/webhook/tracking-update, which write the order store.         *)
(***************************************************************************)

RECURSIVE FetchLoop(_, _, _, _)
\* for order in orders: unified_order_logger.upsert_order(order_id, {...}).
\* An upsert that raises ends the request.
FetchLoop(file, orders, i, t) ==
    IF i > Len(orders) \/ file.raised THEN file
    ELSE FetchLoop(UpsertOrderResult(file.header, file.rows, orders[i].order_id,
                                     [internal_state |-> "PENDING_POST",
                                      created_at |-> orders[i].created_at,
                                      updated_at |-> IsoFormat(t)], t),
                   orders, i + 1, t)

\* POST /fetch-orders
FetchOrders(mirakl) ==
    LET file == IF mirakl = None
                THEN [header |-> csvHeader, rows |-> csvRows, raised |-> TRUE]
                ELSE FetchLoop([header |-> csvHeader, rows |-> csvRows, raised |-> FALSE],
                               Val(mirakl), 1, clock)
    IN
    /\ clock < MaxClock
    /\ clock' = clock + 1
    /\ csvHeader' = file.header
    /\ csvRows' = file.rows
    /\ storeLast' = [op |-> "fetch_orders", order_id |-> "", raised |-> file.raised]
    /\ UNCHANGED glsLog

\* The TrackID of a new GLS shipment: the mock derives it from the order id,
\* the carrier issues a new one for every shipment.
TrackId(order_id, nth, mock) ==
    IF mock THEN "GLS-" \o order_id ELSE "GLS-" \o order_id \o "-" \o ToString(nth)

\* GlsAdapter.create_shipments_bulk: create_shipment for every order, the
\* failures collected apart, the successes in input order.
GlsCreateShipmentsBulk(orders, failing, ledger, mock) ==
    LET made == SelectSeq(orders, LAMBDA o : o.order_id \notin failing) IN
    [i \in 1..Len(made) |->
        [order_id |-> made[i].order_id, carrier |-> "gls",
         track_id |-> TrackId(made[i].order_id, ledger["gls"][made[i].order_id] + 1, mock)]]

RECURSIVE MiraklUpdateLoop(_, _, _, _, _, _)
\* for i, shipment in enumerate(shipments): order = orders[i]; update the
\* marketplace, then upsert the order; any exception is recorded and the
\* loop goes on.
MiraklUpdateLoop(file, orders, shipments, mirakl_failing, i, t) ==
    IF i > Len(shipments) \/ i > Len(orders) THEN file
    ELSE LET order_id == orders[i].order_id
             res == UpsertOrderResult(file.header, file.rows, order_id,
                                      [carrier_code |-> "gls",
                                       tracking_number |-> shipments[i].track_id,
                                       internal_state |-> "MIRAKL_OK",
                                       carrier_status |-> "CREATED"], t)
         IN IF order_id \in mirakl_failing
            THEN MiraklUpdateLoop(file, orders, shipments, mirakl_failing, i + 1, t)
            ELSE MiraklUpdateLoop([header |-> res.header, rows |-> res.rows,
                                   raised |-> file.raised \/ res.raised],
                                  orders, shipments, mirakl_failing, i + 1, t)

\* POST /mirakl-to-gls
MiraklToGls(mirakl, gls_failing, mirakl_failing) ==
    LET orders == OrdersOf(mirakl)
        shipments == GlsCreateShipmentsBulk(orders, gls_failing, carrierShipments, mock_mode)
        file == MiraklUpdateLoop([header |-> csvHeader, rows |-> csvRows, raised |-> FALSE],
                                 orders, shipments, mirakl_failing, 1, clock)
    IN
    /\ clock < MaxClock
    /\ dispatchRuns < MaxRuns
    /\ clock' = clock + 1
    /\ dispatchRuns' = dispatchRuns + 1
    /\ carrierShipments' = Shipped(carrierShipments, shipments)
    /\ csvHeader' = file.header
    /\ csvRows' = file.rows
    /\ storeLast' = [op |-> "mirakl_to_gls", order_id |-> "", raised |-> file.raised]
    /\ dispatchLast' = [op |-> "mirakl_to_gls", mirakl |-> None,
                        outcome |-> [c \in DispatchCarriers |-> "ok"],
                        response |-> [code |-> IF mirakl = None THEN 500 ELSE 200,
                                      success |-> mirakl # None,
                                      shipments |-> shipments, breakdown |-> <<>>]]
    /\ UNCHANGED glsLog

\* The order gls_tracking_webhook resolves: get_order_by_id is not a method
\* of the store, so a payload with an order_reference raises; otherwise the
\* first order whose tracking_number column equals the payload's.
FindByTracking(header, rows, tracking_number) ==
    LET orders == ReadCsv(rows)
        hits == {i \in 1..Len(orders) :
                    /\ "tracking_number" \in header
                    /\ orders[i]["tracking_number"] = tracking_number}
    IN IF hits = {} THEN None
       ELSE Some(orders[CHOOSE i \in hits : \A j \in hits : i <= j])

\* order.get("mirakl_order_id")
MiraklOrderId(order) == IF "mirakl_order_id" \in DOMAIN order THEN order["mirakl_order_id"] ELSE ""

\* gls_tracking_webhook: the response code and the file it leaves.
GlsTrackingWebhookResult(header, rows, payload, t) ==
    LET same == [header |-> header, rows |-> rows, raised |-> FALSE]
        order == FindByTracking(header, rows, payload.tracking_number)
    IN IF payload.tracking_number = "" \/ payload.status = ""
       THEN [code |-> 400, found |-> FALSE, file |-> same]
       ELSE IF payload.order_reference # ""
       THEN [code |-> 500, found |-> FALSE, file |-> same]
       ELSE IF order = None
       THEN [code |-> 200, found |-> FALSE, file |-> same]
       ELSE LET res == UpsertOrderResult(header, rows, MiraklOrderId(Val(order)),
                                         [carrier_status |-> payload.status,
                                          tracking_events |-> "[]"], t)
            IN [code |-> IF res.raised THEN 500 ELSE 200, found |-> TRUE, file |-> res]

TrackingNumbersInStore ==
    {csvRows[i]["tracking_number"] : i \in {j \in 1..Len(csvRows) : "tracking_number" \in csvHeader}}

GlsPayloads ==
    {[tracking_number |-> tn, status |-> st, order_reference |-> ref] :
        tn \in TrackingNumbersInStore \cup {"", "ZZ"}, st \in {"", "DELIVERED"},
        ref \in {"", "A"}}

\* POST /gls/webhook/tracking-update: the first delivery of an event fixes its
\* payload, a later delivery repeats it.
GlsTrackingWebhook(e, payload) ==
    LET res == GlsTrackingWebhookResult(csvHeader, csvRows, payload, clock) IN
    /\ clock < MaxClock
    /\ glsLog[e].count < MaxDeliveries
    /\ glsLog[e].count > 0 => payload = glsLog[e].payload
    /\ clock' = clock + 1
    /\ csvHeader' = res.file.header
    /\ csvRows' = res.file.rows
    /\ storeLast' = [op |-> "gls_tracking_webhook", order_id |-> "", raised |-> res.file.raised]
    /\ glsLog' = [glsLog EXCEPT ![e] =
                     [payload |-> payload,
                      count |-> @.count + 1,
                      found |-> @.found + (IF res.found THEN 1 ELSE 0),
                      mutations |-> @.mutations +
                          (IF res.file.header # csvHeader \/ res.file.rows # csvRows
                           THEN 1 ELSE 0),
                      code |-> res.code,
                      duplicate |-> FALSE]]

\* The store under its own interface and the endpoints that write states.
StoreNext ==
    \/ \E order_id \in OrderIds, fields \in UpsertFields :
           UpsertOrder(order_id, fields) /\ UNCHANGED exceptStore
    \/ \E mirakl \in MiraklResponses : FetchOrders(mirakl) /\ UNCHANGED exceptStore
    \/ \E mirakl \in MiraklResponses :
         \E gls_failing \in SUBSET OrderIdsOf(mirakl) :
           \E mirakl_failing \in SUBSET OrderIdsOf(mirakl) :
             MiraklToGls(mirakl, gls_failing, mirakl_failing)
                 /\ UNCHANGED exceptStoreAndDispatch

\* The tracking webhook and the endpoints that fill the store it reads.
GlsWebhookNext ==
    \/ \E mirakl \in MiraklResponses : FetchOrders(mirakl) /\ UNCHANGED exceptStore
    \/ \E mirakl \in MiraklResponses :
         \E gls_failing \in SUBSET OrderIdsOf(mirakl) :
           \E mirakl_failing \in SUBSET OrderIdsOf(mirakl) :
             MiraklToGls(mirakl, gls_failing, mirakl_failing)
                 /\ UNCHANGED exceptStoreAndDispatch
    \/ \E e \in GlsEventIds, payload \in GlsPayloads :
           GlsTrackingWebhook(e, payload) /\ UNCHANGED exceptStore

DispNext ==
    \/ \E mirakl \in MiraklResponses, outcome \in [DispatchCarriers -> BulkOutcomes] :
           LoadOrders(mirakl, outcome) /\ UNCHANGED exceptStoreAndDispatch
                                       /\ UNCHANGED storeVars
    \/ \E mirakl \in MiraklResponses :
         \E gls_failing \in SUBSET OrderIdsOf(mirakl) :
           \E mirakl_failing \in SUBSET OrderIdsOf(mirakl) :
             MiraklToGls(mirakl, gls_failing, mirakl_failing)
                 /\ UNCHANGED exceptStoreAndDispatch

(***************************************************************************)
(* rules/selector.py: select_carrier on any order dictionary.  A value of  *)
(* the dictionary is missing, null, a text, a number or, for the address,  *)
(* a dictionary of its own.                                                *)
(***************************************************************************)
Missing == [kind |-> "missing", num |-> 0, text |-> ""]

Null == [kind |-> "null", num |-> 0, text |-> ""]

Text(t) == [kind |-> "text", num |-> 0, text |-> t]

Number(n) == [kind |-> "number", num |-> n, text |-> ""]

\* dict.get(key, default)
Get(value, default) == IF value.kind = "missing" THEN default ELSE value

\* A shipping_address value: not a dictionary, or a dictionary and its
\* "country" entry.
Address(kind, country) == [kind |-> kind, country |-> country]

WeightValues == {Missing, Null, Text("25"), Number(2), Number(5), Number(25)}

PaymentValues == {Missing, Text("COD"), Text("CARD")}

SpeedValues == {Missing, Text("EXPRESS"), Text("STANDARD")}

AddressValues ==
    {Address(k, Missing) : k \in {"missing", "null", "text"}}
        \cup {Address("dict", c) : c \in {Missing, Null, Text("ES"), Text("FR")}}

\* The order dictionaries given to select_carrier; the empty dictionary is
\* the one with every value missing.
SelectorOrders ==
    [weight : WeightValues, payment_method : PaymentValues,
     shipping_speed : SpeedValues, shipping_address : AddressValues]

\* An international rule that never applies.
IsInternationalNever(country) == FALSE

\* Rule 4: country != "ES"
IsInternational(country) == country # Text("ES")

\* The except branch that lets the caller see no carrier.
OnSelectErrorNoCarrier(order) == "none"

\* except Exception: return "tipsa"
OnSelectError(order) == "tipsa"

\* select_carrier: weight > 20 raises TypeError for a weight that is not a
\* number, shipping_address.get raises AttributeError for an address that is
\* not a dictionary; both end in the except branch.
select_carrier(order) ==
    LET weight == Get(order.weight, Number(0))
        payment_method == Get(order.payment_method, Text(""))
        shipping_speed == Get(order.shipping_speed, Text(""))
        shipping_address == order.shipping_address
        country == IF shipping_address.kind = "missing" THEN Text("ES")
                   ELSE Get(shipping_address.country, Text("ES"))
    IN IF weight.kind # "number" THEN OnSelectError(order)
       ELSE IF weight.num > 20 THEN "tipsa"
       ELSE IF payment_method = Text("COD") THEN "tipsa"
       ELSE IF shipping_speed = Text("EXPRESS") THEN "dhl"
       ELSE IF shipping_address.kind \notin {"missing", "dict"} THEN OnSelectError(order)
       ELSE IF IsInternational(country) THEN "dhl"
       ELSE "tipsa"

\* The keys of CARRIER_ADAPTERS in api/orchestrator.py.
OrchestratorAdapters == {"tipsa", "ontime", "seur", "correosex", "dhl", "ups", "gls"}

\* The dictionary {}.
EmptyOrder ==
    [weight |-> Missing, payment_method |-> Missing, shipping_speed |-> Missing,
     shipping_address |-> Address("missing", Missing)]

SelInit == selected = [op |-> "none", order |-> EmptyOrder, carrier |-> ""]

\* A call of select_carrier(order).
SelectCarrierCall(order) ==
    /\ selected' = [op |-> "select_carrier", order |-> order, carrier |-> select_carrier(order)]
    /\ UNCHANGED <<rules, engineLast>>

SelNext ==
    \/ \E order \in SelectorOrders : SelectCarrierCall(order) /\ UNCHANGED exceptRules

(***************************************************************************)
(* rules/engine.py: RulesEngine.  An order has the attributes the          *)
(* conditions read; weight, cod_amount and shipping_address may be None.   *)
(***************************************************************************)
EngineOrders ==
    [weight : {None, Some(15), Some(25)}, cod_amount : {None, Some(10)},
     service_type : {"standard", "express"}, country : {None, Some("ES"), Some("FR")}]

\* The condition of a rule, as _create_rule_from_config builds it.
Condition(type, num, text) == [type |-> type, num |-> num, text |-> text]

Rule(name, condition, carrier, priority) ==
    [name |-> name, condition |-> condition, carrier |-> carrier, priority |-> priority]

\* rule.condition(order): "true", "false", or "raises" (a comparison with
\* None, an attribute of None).
Evaluate(condition, order) ==
    CASE condition.type = "weight_gt" ->
             IF order.weight = None THEN "raises"
             ELSE IF Val(order.weight) > condition.num THEN "true" ELSE "false"
      [] condition.type = "cod_gt" ->
             IF order.cod_amount # None /\ Val(order.cod_amount) > condition.num
             THEN "true" ELSE "false"
      [] condition.type = "service_type" ->
             IF order.service_type = condition.text THEN "true" ELSE "false"
      [] condition.type = "country_ne" ->
             IF order.country = None THEN "raises"
             ELSE IF Val(order.country) # condition.text THEN "true" ELSE "false"
      [] OTHER -> "true"

\* The rule applies: its condition returned a true value without raising.
Matches(rule, order) == Evaluate(rule.condition, order) = "true"

\* The rules of _load_default_rules, in the order it adds them.
DefaultRules ==
    <<Rule("heavy_packages", Condition("weight_gt", 20, ""), "tipsa", 100),
      Rule("cod_orders", Condition("cod_gt", 0, ""), "tipsa", 90),
      Rule("express_service", Condition("service_type", 0, "express"), "dhl", 80),
      Rule("international_orders", Condition("country_ne", 0, "ES"), "dhl", 70),
      Rule("default_tipsa", Condition("always", 0, ""), "tipsa", 0)>>

\* Rules a caller adds later.
AddableRules ==
    {Rule("medium_packages", Condition("weight_gt", 10, ""), "ups", 95),
     Rule("express_fedex", Condition("service_type", 0, "express"), "fedex", 80)}

RuleNames ==
    {DefaultRules[i].name : i \in 1..Len(DefaultRules)} \cup {r.name : r \in AddableRules}

\* A list left in the order of insertion.
SortByPriorityNot(list) == list

RECURSIVE SortByPriority(_)
\* list.sort(key=lambda r: r.priority, reverse=True): a stable sort, highest
\* priority first, rules of equal priority in their previous order.
SortByPriority(list) ==
    IF list = <<>> THEN <<>>
    ELSE LET front == SortByPriority(SubSeq(list, 1, Len(list) - 1))
             last == list[Len(list)]
             k == Cardinality({i \in 1..Len(front) : front[i].priority >= last.priority})
         IN SubSeq(front, 1, k) \o <<last>> \o SubSeq(front, k + 1, Len(front))

\* add_rule
AddedRule(list, rule) == SortByPriority(Append(list, rule))

\* remove_rule: the first rule of that name is deleted, if there is one.
RemovedRule(list, rule_name) ==
    LET hits == {i \in 1..Len(list) : list[i].name = rule_name} IN
    IF hits = {} THEN list
    ELSE LET i == CHOOSE h \in hits : \A g \in hits : h <= g
         IN SubSeq(list, 1, i - 1) \o SubSeq(list, i + 1, Len(list))

\* get_carrier_for_order: the carrier of the first rule of the list that
\* applies, TIPSA when none does.
GetCarrierForOrder(list, order) ==
    LET hits == {i \in 1..Len(list) : Matches(list[i], order)} IN
    IF hits = {} THEN "tipsa"
    ELSE list[CHOOSE h \in hits : \A g \in hits : h <= g].carrier

RECURSIVE LoadDefaultRules(_)
\* _load_default_rules: add_rule for the first n default rules.
LoadDefaultRules(n) ==
    IF n = 0 THEN <<>> ELSE AddedRule(LoadDefaultRules(n - 1), DefaultRules[n])

NoEngineCall == [op |-> "none", order |-> CHOOSE o \in EngineOrders : TRUE, carrier |-> ""]

EngInit ==
    /\ rules = LoadDefaultRules(Len(DefaultRules))
    /\ engineLast = NoEngineCall

\* engine.add_rule(rule)
AddRule(rule) ==
    /\ Len(rules) < MaxRules
    /\ rules' = AddedRule(rules, rule)
    /\ engineLast' = NoEngineCall
    /\ UNCHANGED selected

\* engine.remove_rule(rule_name)
RemoveRule(rule_name) ==
    /\ rules' = RemovedRule(rules, rule_name)
    /\ engineLast' = NoEngineCall
    /\ UNCHANGED selected

\* engine.get_carrier_for_order(order)
GetCarrier(order) ==
    /\ engineLast' = [op |-> "get_carrier_for_order", order |-> order,
                      carrier |-> GetCarrierForOrder(rules, order)]
    /\ UNCHANGED <<selected, rules>>

EngNext ==
    \/ \E rule \in AddableRules : AddRule(rule) /\ UNCHANGED exceptRules
    \/ \E rule_name \in RuleNames : RemoveRule(rule_name) /\ UNCHANGED exceptRules
    \/ \E order \in EngineOrders : GetCarrier(order) /\ UNCHANGED exceptRules

(***************************************************************************)
(* services/gls_tracking_poller.py: the background polling task.  A task   *)
(* runs from one suspension point (an awaited network call, the awaited    *)
(* operations log, the sleep between cycles) to the next in one step; the  *)
(* store calls in between are synchronous.                                 *)
(***************************************************************************)
TaskIds == 1..MaxTasks

\* Statuses GLS reports for a parcel.
CarrierStatuses == {"CREATED", "DELIVERED"}

TerminalStates == {"DELIVERED", "FAILED"}

\* dict.get(key): the value, or nothing for a key the dictionary lacks.
Field(row, column) == IF column \in DOMAIN row THEN row[column] ELSE ""

\* The keys of a stored record that the polling loop reads.
PolledRecord(row) ==
    [mirakl_order_id |-> row["order_id"],
     tracking_number |-> Field(row, "tracking_number"),
     carrier_status |-> Field(row, "carrier_status"),
     internal_state |-> Field(row, "internal_state")]

\* unified_order_logger.get_orders_by_carrier(carrier): the records attached
\* to the carrier that are not in a terminal state, in file order.
get_orders_by_carrier(rows, carrier) ==
    LET orders == ReadCsv(rows)
        mine == SelectSeq(orders, LAMBDA r :
                    /\ Field(r, "carrier_code") = carrier
                    /\ Field(r, "internal_state") \notin TerminalStates)
    IN [i \in 1..Len(mine) |-> PolledRecord(mine[i])]

\* internal_state of an order in the file ("" when it has no record).
StoredState(rows, order_id) ==
    IF GetOrder(rows, order_id) = None THEN ""
    ELSE Field(Val(GetOrder(rows, order_id)), "internal_state")

\* How the loop body ended for an order: "unchanged" (same status as
\* recorded), "recorded" (pushed and written), or the call that raised.
NoOrderHandled == [idx |-> 0, outcome |-> ""]

OrderErrors == {"status_raised", "push_raised", "store_raised"}

\* A task slot: the coroutine's position, the locals of the cycle it is in
\* (active_orders, the loop index, current_status), how the body ended for
\* the order handled last, whether the order being queried was already in a
\* terminal state in the file, and whether the previous cycle went through
\* all its orders.
NoTask ==
    [kind |-> "none", pc |-> "idle", cancel |-> FALSE, active |-> <<>>, idx |-> 0,
     status |-> "", last |-> NoOrderHandled, staleQuery |-> FALSE, complete |-> TRUE]

\* asyncio.create_task(self._poll_loop()) / the coroutine of poll_once
NewTask(kind) == [NoTask EXCEPT !.kind = kind, !.pc = "created"]

NoPollerCall == [op |-> "none", noop |-> FALSE]

PollInit ==
    /\ running = FALSE
    /\ pollTask = 0
    /\ tasks = [t \in TaskIds |-> NoTask]
    /\ pollLast = NoPollerCall
    /\ cycleBit = FALSE

\* Tasks of _poll_loop that can still take a step of the loop: created, not
\* finished, and with no cancellation pending.
LiveLoopTasks ==
    {t \in TaskIds : /\ tasks[t].kind = "loop"
                     /\ tasks[t].pc \notin {"idle", "done"}
                     /\ ~tasks[t].cancel}

FreeSlots == {t \in TaskIds : tasks[t].kind = "none"}

\* Position of the next order after i that has a tracking number (0: none).
NextTracked(active, i) ==
    LET later == {j \in (i + 1)..Len(active) : active[j].tracking_number # ""}
    IN IF later = {} THEN 0 ELSE CHOOSE j \in later : \A k \in later : j <= k

\* What a task keeps once _poll_tracking_updates is left: whether the cycle
\* reached the end of active_orders.
Left(T) ==
    [NoTask EXCEPT !.kind = T.kind, !.complete = (NextTracked(T.active, T.idx) = 0)]

\* _poll_tracking_updates returns: _poll_loop sleeps until the next cycle;
\* the coroutine of poll_once is over.
EndCycle(T) ==
    IF T.kind = "loop" THEN [Left(T) EXCEPT !.pc = "sleep"] ELSE NoTask

\* A loop that lets the exception of a cycle end its task.
OnCycleErrorCrash(T) ==
    IF T.kind = "loop" THEN [Left(T) EXCEPT !.pc = "done"] ELSE NoTask

\* _poll_tracking_updates raises: the `except Exception` of _poll_loop logs
\* and falls through to the sleep; poll_once raises to its caller.
OnCycleError(T) ==
    IF T.kind = "loop" THEN [Left(T) EXCEPT !.pc = "sleep"] ELSE NoTask

\* The for loop moves on: the orders without tracking number are skipped,
\* the next one is queried (get_shipment_status awaited); after the last
\* order the summary is logged (csv_ops_logger.log awaited).
Advance(T, rows) ==
    LET j == NextTracked(T.active, T.idx) IN
    IF j = 0 THEN [T EXCEPT !.pc = "log", !.idx = Len(T.active), !.status = ""]
    ELSE [T EXCEPT !.pc = "status", !.idx = j, !.status = "",
                   !.staleQuery = StoredState(rows, T.active[j].mirakl_order_id)
                                      \in TerminalStates]

\* An exception of one order that ends the whole cycle.
AbortCycle(T, rows) == OnCycleError(T)

\* The except branch of the for loop: log, count, continue.
AfterOrderError(T, rows) == Advance(T, rows)

\* _poll_tracking_updates up to its first suspension point.
BeginCycle(T, rows) ==
    LET active == get_orders_by_carrier(rows, "gls")
        fresh == [T EXCEPT !.active = active]
    IN IF active = <<>> THEN EndCycle(fresh) ELSE Advance(fresh, rows)

\* `if self.running:` of start()
AlreadyRunningNever(r) == FALSE

AlreadyRunning(r) == r

\* start()
Start ==
    IF AlreadyRunning(running)
    THEN /\ pollLast' = [NoPollerCall EXCEPT !.op = "start", !.noop = TRUE]
         /\ UNCHANGED <<running, pollTask, tasks>>
    ELSE /\ FreeSlots # {}
         /\ LET t == CHOOSE s \in FreeSlots : \A u \in FreeSlots : s <= u IN
            /\ running' = TRUE
            /\ pollTask' = t
            /\ tasks' = [tasks EXCEPT ![t] = NewTask("loop")]
         /\ pollLast' = [NoPollerCall EXCEPT !.op = "start"]

\* Task.cancel(): a finished task ignores it; any other is left with a
\* pending CancelledError and will not read its locals again.  Of the place
\* where it is suspended only this is kept: in the marketplace push of an
\* order's update ("push"), or elsewhere ("await").
Cancel(T) ==
    IF T.pc = "done" THEN T
    ELSE [NoTask EXCEPT !.kind = T.kind, !.cancel = TRUE,
                        !.pc = IF T.pc = "push" THEN "push" ELSE "await"]

\* stop(): the flag and the cancellation request; the task it then awaits
\* ends in CancelTask.
Stop ==
    IF ~running
    THEN UNCHANGED <<running, pollTask, tasks, pollLast>>
    ELSE /\ running' = FALSE
         /\ tasks' = [tasks EXCEPT ![pollTask] = Cancel(@)]
         /\ pollLast' = NoPollerCall
         /\ UNCHANGED pollTask

\* The first step of a created task: `while self.running`, then the cycle.
TaskStart(t) ==
    /\ tasks[t].kind = "loop"
    /\ tasks[t].pc = "created"
    /\ ~tasks[t].cancel
    /\ tasks' = [tasks EXCEPT ![t] = IF running THEN BeginCycle(@, csvRows)
                                     ELSE [@ EXCEPT !.pc = "done"]]
    /\ UNCHANGED <<running, pollTask, pollLast>>

\* asyncio.sleep(self.poll_interval) is over.
Wake(t) ==
    /\ tasks[t].pc = "sleep"
    /\ ~tasks[t].cancel
    /\ tasks' = [tasks EXCEPT ![t] = IF running THEN BeginCycle(@, csvRows)
                                     ELSE [@ EXCEPT !.pc = "done"]]
    /\ UNCHANGED <<running, pollTask, pollLast>>

\* poll_once(): one cycle in the task of the request that asked for it.
PollOnce ==
    /\ FreeSlots # {}
    /\ LET t == CHOOSE s \in FreeSlots : \A u \in FreeSlots : s <= u IN
       tasks' = [tasks EXCEPT ![t] = BeginCycle(NewTask("once"), csvRows)]
    /\ UNCHANGED <<running, pollTask, pollLast>>

Handled(T, outcome) == [idx |-> T.idx, outcome |-> outcome]

\* get_shipment_status returns a status or raises (token exchange failed,
\* HTTP error, timeout).
StatusReturns(t, outcome) ==
    LET T == tasks[t]
        order == T.active[T.idx]
        id == order.mirakl_order_id
    IN /\ T.pc = "status"
       /\ ~T.cancel
       /\ tasks' = [tasks EXCEPT ![t] =
            IF outcome = "raises"
            THEN AfterOrderError([T EXCEPT !.last = Handled(T, "status_raised")], csvRows)
            ELSE IF outcome = order.carrier_status
            THEN Advance([T EXCEPT !.last = Handled(T, "unchanged")], csvRows)
            \* _update_mirakl_tracking awaits update_order_tracking
            ELSE [T EXCEPT !.pc = "push", !.status = outcome]]
       /\ UNCHANGED <<running, pollTask, pollLast>>

\* The fields of the two upsert_order calls of a status change.
DeliveredFields(t) ==
    [internal_state |-> "DELIVERED", last_event |-> "GLS_DELIVERED",
     last_event_at |-> IsoFormat(t), delivery_date |-> ""]

StatusFields(status, t) ==
    [carrier_status |-> status, last_event |-> "GLS_STATUS_UPDATE:" \o status,
     last_event_at |-> IsoFormat(t), tracking_events |-> "[]"]

\* What the store calls after a successful push leave: the file, and
\* whether one of them raised.
RecordStatusChange(header, rows, order, status, t) ==
    LET id == order.mirakl_order_id
        r1 == IF status = "DELIVERED" /\ order.internal_state # "DELIVERED"
              THEN UpsertOrderResult(header, rows, id, DeliveredFields(t), t)
              ELSE [header |-> header, rows |-> rows, raised |-> FALSE]
    IN IF r1.raised THEN r1
       ELSE UpsertOrderResult(r1.header, r1.rows, id, StatusFields(status, t), t)

\* update_order_tracking returns or raises; then the store is written.
PushReturns(t, ok) ==
    LET T == tasks[t]
        order == T.active[T.idx]
        id == order.mirakl_order_id
        res == RecordStatusChange(csvHeader, csvRows, order, T.status, clock)
    IN /\ T.pc = "push"
       /\ ~T.cancel
       /\ IF ~ok
          THEN /\ tasks' = [tasks EXCEPT ![t] =
                    AfterOrderError([T EXCEPT !.last = Handled(T, "push_raised")], csvRows)]
               /\ UNCHANGED <<csvHeader, csvRows, storeLast>>
          ELSE /\ csvHeader' = res.header
               /\ csvRows' = res.rows
               /\ storeLast' = [op |-> "poll_tracking", order_id |-> id,
                                raised |-> res.raised]
               /\ tasks' = [tasks EXCEPT ![t] =
                    IF res.raised
                    THEN AfterOrderError([T EXCEPT !.last = Handled(T, "store_raised")],
                                         res.rows)
                    ELSE Advance([T EXCEPT !.last = Handled(T, "recorded")], res.rows)]
       /\ UNCHANGED <<running, pollTask, pollLast, clock, glsLog>>

\* csv_ops_logger.log returns or raises (the log file cannot be written).
LogReturns(t, ok) ==
    /\ tasks[t].pc = "log"
    /\ ~tasks[t].cancel
    /\ tasks' = [tasks EXCEPT ![t] = IF ok THEN EndCycle(@) ELSE OnCycleError(@)]
    /\ UNCHANGED <<running, pollTask, pollLast>>

\* The CancelledError that stop() requested is thrown into the task at the
\* point where it is suspended; no handler of the loop catches it, and the
\* task is over: what it awaited is abandoned, what follows never runs.
CancelTask(t) ==
    /\ tasks[t].cancel
    /\ tasks[t].pc \notin {"idle", "done"}
    /\ tasks' = [tasks EXCEPT ![t] = NoTask]
    /\ UNCHANGED <<running, pollTask, pollLast>>

\* The other writers of the store while the poller is at work.
\* POST /mirakl-to-gls records the shipment it created for an order.
ShipmentCreatedFields(order_id, t) ==
    [marketplace |-> "mirakl", carrier |-> "gls", carrier_code |-> "gls",
     tracking_number |-> "GLS-" \o order_id, internal_state |-> "MIRAKL_OK",
     carrier_status |-> "CREATED", last_event |-> "GLS_SHIPMENT_CREATED",
     last_event_at |-> IsoFormat(t)]

ShipmentCreated(order_id) ==
    /\ GetOrder(csvRows, order_id) = None
    /\ UpsertOrder(order_id, ShipmentCreatedFields(order_id, clock))

exceptPollerTasks == <<exceptPoller, storeVars, cycleBit>>

exceptPollerStore == <<exceptPoller, cycleBit>>

\* The background task: start(), stop() and the steps of _poll_loop.
PollNext ==
    \/ Start /\ UNCHANGED exceptPollerTasks
    \/ Stop /\ UNCHANGED exceptPollerTasks
    \/ \E t \in TaskIds : TaskStart(t) /\ UNCHANGED exceptPollerTasks
    \/ \E t \in TaskIds : Wake(t) /\ UNCHANGED exceptPollerTasks
    \/ \E t \in TaskIds, outcome \in CarrierStatuses \cup {"raises"} :
           StatusReturns(t, outcome) /\ UNCHANGED exceptPollerTasks
    \/ \E t \in TaskIds, ok \in BOOLEAN : PushReturns(t, ok) /\ UNCHANGED exceptPollerStore
    \/ \E t \in TaskIds, ok \in BOOLEAN : LogReturns(t, ok) /\ UNCHANGED exceptPollerTasks
    \/ \E t \in TaskIds : CancelTask(t) /\ UNCHANGED exceptPollerTasks
    \/ \E order_id \in OrderIds : ShipmentCreated(order_id) /\ UNCHANGED exceptStore

\* The steps of a task, each with the parity of the cycles begun.
TaskStartStep(t) ==
    TaskStart(t) /\ cycleBit' = ~cycleBit /\ UNCHANGED <<exceptPoller, storeVars>>

WakeStep(t) ==
    Wake(t) /\ cycleBit' = ~cycleBit /\ UNCHANGED <<exceptPoller, storeVars>>

StatusStep(t) ==
    \E outcome \in CarrierStatuses \cup {"raises"} :
        StatusReturns(t, outcome) /\ UNCHANGED exceptPollerTasks

PushStep(t) == \E ok \in BOOLEAN : PushReturns(t, ok) /\ UNCHANGED exceptPollerStore

LogStep(t) == \E ok \in BOOLEAN : LogReturns(t, ok) /\ UNCHANGED exceptPollerTasks

\* The poller from start() on, as long as nobody stops it.
PollRunningNext ==
    \/ Start /\ UNCHANGED exceptPollerTasks
    \/ \E t \in TaskIds : TaskStartStep(t)
    \/ \E t \in TaskIds : WakeStep(t)
    \/ \E t \in TaskIds : StatusStep(t)
    \/ \E t \in TaskIds : PushStep(t)
    \/ \E t \in TaskIds : LogStep(t)
    \/ \E order_id \in OrderIds : ShipmentCreated(order_id) /\ UNCHANGED exceptStore

\* The event loop runs a task that is ready; an awaited call returns or
\* raises within its timeout; the sleep between two cycles ends.
PollFairness ==
    \A t \in TaskIds :
        /\ WF_vars(TaskStartStep(t))
        /\ WF_vars(WakeStep(t))
        /\ WF_vars(StatusStep(t))
        /\ WF_vars(PushStep(t))
        /\ WF_vars(LogStep(t))

\* Manual cycles with no background task: every POST .../poll-once request
\* runs its own cycle, and the cycles of two requests may overlap.
PollOnceNext ==
    \/ PollOnce /\ UNCHANGED exceptPollerTasks
    \/ \E t \in TaskIds, outcome \in CarrierStatuses \cup {"raises"} :
           StatusReturns(t, outcome) /\ UNCHANGED exceptPollerTasks
    \/ \E t \in TaskIds, ok \in BOOLEAN : PushReturns(t, ok) /\ UNCHANGED exceptPollerStore
    \/ \E t \in TaskIds, ok \in BOOLEAN : LogReturns(t, ok) /\ UNCHANGED exceptPollerTasks
    \/ \E order_id \in OrderIds : ShipmentCreated(order_id) /\ UNCHANGED exceptStore

(***************************************************************************)
(* api/orchestrator.py: POST /upload-tracking.  The body is a list of      *)
(* dictionaries; a field of an item is absent (get returns None) or a      *)
(* text, possibly empty.  The handler runs from one awaited marketplace    *)
(* call to the next in one step.                                           *)
(***************************************************************************)
UploadItems ==
    [order_id : {Some("A"), Some("B"), None},
     tracking_number : {Some("T1"), Some("")},
     carrier_code : {Some("gls"), None},
     carrier_name : {Some("GLS")}]

\* The request bodies of at most MaxBatch items.
UploadBatches == UNION {[1..n -> UploadItems] : n \in 0..MaxBatch}

\* Python's truth value of what dict.get returned.
Truthy(opt) == opt # None /\ Val(opt) # ""

\* all([order_id, tracking_number, carrier_code, carrier_name])
HasRequiredFields(item) ==
    /\ Truthy(item.order_id)
    /\ Truthy(item.tracking_number)
    /\ Truthy(item.carrier_code)
    /\ Truthy(item.carrier_name)

SuccessEntry(item) ==
    [order_id |-> item.order_id, tracking_number |-> item.tracking_number,
     carrier_code |-> item.carrier_code, carrier_name |-> item.carrier_name,
     status |-> "SUCCESS", error |-> None]

ErrorEntry(item, error) == [SuccessEntry(item) EXCEPT !.status = "ERROR", !.error = Some(error)]

UploadResult(updates, updated) ==
    [success |-> TRUE, orders_updated |-> updated, tracking_updates |-> updates]

NoUploadResponse == [success |-> FALSE, orders_updated |-> 0, tracking_updates |-> <<>>]

UploadInit ==
    /\ uploadPc = "idle"
    /\ tracking_data = <<>>
    /\ uploadIdx = 0
    /\ tracking_updates = <<>>
    /\ orders_updated = 0
    /\ uploadResponse = NoUploadResponse

\* The loop from item i on, up to the first item that has all its fields:
\* the items without them get their ERROR entry and the loop continues.
RECURSIVE SkipIncomplete(_, _, _)
SkipIncomplete(data, i, updates) ==
    IF i > Len(data) THEN [idx |-> i, updates |-> updates]
    ELSE IF HasRequiredFields(data[i]) THEN [idx |-> i, updates |-> updates]
    ELSE SkipIncomplete(data, i + 1,
                        Append(updates, ErrorEntry(data[i], "Missing required fields")))

\* The mutation of the loop that stops at the first item without its fields.
StopAtIncomplete(data, i, updates) ==
    IF i > Len(data) THEN [idx |-> i, updates |-> updates]
    ELSE IF HasRequiredFields(data[i]) THEN [idx |-> i, updates |-> updates]
    ELSE [idx |-> Len(data) + 1,
          updates |-> Append(updates, ErrorEntry(data[i], "Missing required fields"))]

NextUploadItem(data, i, updates) == SkipIncomplete(data, i, updates)

\* The loop goes on from item i with the entries and the counter given:
\* it suspends at the marketplace call of the next complete item, or the
\* handler returns its response.
ContinueUpload(data, i, updates, updated) ==
    LET next == NextUploadItem(data, i, updates) IN
    /\ uploadIdx' = next.idx
    /\ tracking_updates' = next.updates
    /\ orders_updated' = updated
    /\ IF next.idx > Len(data)
       THEN /\ uploadPc' = "done"
            /\ uploadResponse' = UploadResult(next.updates, updated)
       ELSE /\ uploadPc' = "tracking"
            /\ UNCHANGED uploadResponse

\* A request arrives; an empty body is answered at once.
UploadTracking(data) ==
    /\ uploadPc = "idle"
    /\ tracking_data' = data
    /\ ContinueUpload(data, 1, <<>>, 0)

\* await mirakl_adapter.update_order_tracking(...) returns or raises.
UploadTrackingReturns(ok) ==
    /\ uploadPc = "tracking"
    /\ IF ok
       THEN /\ uploadPc' = "status"
            /\ UNCHANGED <<tracking_data, uploadIdx, tracking_updates, orders_updated,
                           uploadResponse>>
       ELSE /\ ContinueUpload(tracking_data, uploadIdx + 1,
                              Append(tracking_updates,
                                     ErrorEntry(tracking_data[uploadIdx], "tracking update failed")),
                              orders_updated)
            /\ UNCHANGED tracking_data

\* await mirakl_adapter.update_order_status(order_id, "SHIPPED") returns or raises.
UploadStatusReturns(ok) ==
    /\ uploadPc = "status"
    /\ IF ok
       THEN ContinueUpload(tracking_data, uploadIdx + 1,
                           Append(tracking_updates, SuccessEntry(tracking_data[uploadIdx])),
                           orders_updated + 1)
       ELSE ContinueUpload(tracking_data, uploadIdx + 1,
                           Append(tracking_updates,
                                  ErrorEntry(tracking_data[uploadIdx], "status update failed")),
                           orders_updated)
    /\ UNCHANGED tracking_data

\* The response has been sent and the request's locals are gone; the next
\* request may arrive.
UploadDone ==
    /\ uploadPc = "done"
    /\ uploadPc' = "idle"
    /\ tracking_data' = <<>>
    /\ uploadIdx' = 0
    /\ tracking_updates' = <<>>
    /\ orders_updated' = 0
    /\ uploadResponse' = NoUploadResponse

UploadNext ==
    \/ \E data \in UploadBatches : UploadTracking(data) /\ UNCHANGED exceptUpload
    \/ \E ok \in BOOLEAN : UploadTrackingReturns(ok) /\ UNCHANGED exceptUpload
    \/ \E ok \in BOOLEAN : UploadStatusReturns(ok) /\ UNCHANGED exceptUpload
    \/ UploadDone /\ UNCHANGED exceptUpload

(***************************************************************************)
(* create_shipments_bulk of GlsAdapter and of TipsaAdapter in mock mode.   *)
(* A shipment carries, besides what the adapter returns, the order it was  *)
(* created for and that order's position in the input.                     *)
(***************************************************************************)
BulkWeights == {1, 2}

BulkOrder == [order_id : OrderIds, weight : BulkWeights]

BulkInputs == UNION {[1..n -> BulkOrder] : n \in 0..MaxBatch}

BulkInit ==
    /\ bulkPc = "idle"
    /\ bulkCarrier = ""
    /\ orders_data = <<>>
    /\ bulkIdx = 0
    /\ created = <<>>
    /\ failed = <<>>

\* What GlsAdapter.create_shipment returns for the order at position i.
GlsShipment(order, i, mock) ==
    [order_id |-> order.order_id, pos |-> i, carrier |-> "gls",
     tracking_number |-> TrackId(order.order_id, i, mock), weight |-> order.weight]

\* The shipment of the TIPSA mock for the order at position i (enumerate
\* counts from 0, the identifiers from 1).
TipsaMockShipment(order, i) ==
    [order_id |-> order.order_id, pos |-> i, carrier |-> "TIPSA",
     tracking_number |-> "1Z" \o order.order_id \o "000" \o ToString(i),
     weight |-> order.weight]

\* The mutation that puts a new shipment in front of the others.
PrependCreated(list, made) == <<made>> \o list

\* created.append(made)
AppendCreated(list, made) == Append(list, made)

\* TipsaAdapter._create_shipments_bulk_mock: no suspension inside its loop.
TipsaBulkMock(orders) ==
    /\ bulkPc = "idle"
    /\ bulkPc' = "done"
    /\ bulkCarrier' = "tipsa"
    /\ orders_data' = orders
    /\ bulkIdx' = Len(orders) + 1
    /\ created' = [i \in 1..Len(orders) |-> TipsaMockShipment(orders[i], i)]
    /\ failed' = <<>>

\* GlsAdapter.create_shipments_bulk up to the first awaited create_shipment.
GlsBulk(orders) ==
    /\ bulkPc = "idle"
    /\ bulkCarrier' = "gls"
    /\ orders_data' = orders
    /\ bulkIdx' = 1
    /\ created' = <<>>
    /\ failed' = <<>>
    /\ bulkPc' = IF orders = <<>> THEN "done" ELSE "create"

\* await self.create_shipment(order) returns a shipment or raises.
GlsBulkCreateReturns(ok, mock) ==
    /\ bulkPc = "create"
    /\ IF ok
       THEN /\ created' = AppendCreated(created,
                                        GlsShipment(orders_data[bulkIdx], bulkIdx, mock))
            /\ UNCHANGED failed
       ELSE /\ failed' = Append(failed, [order |-> orders_data[bulkIdx].order_id,
                                         error |-> "create_shipment failed"])
            /\ UNCHANGED created
    /\ bulkIdx' = bulkIdx + 1
    /\ bulkPc' = IF bulkIdx = Len(orders_data) THEN "done" ELSE "create"
    /\ UNCHANGED <<bulkCarrier, orders_data>>

\* The result has been returned to the caller.
BulkDone ==
    /\ bulkPc = "done"
    /\ bulkPc' = "idle"
    /\ bulkCarrier' = ""
    /\ orders_data' = <<>>
    /\ bulkIdx' = 0
    /\ created' = <<>>
    /\ failed' = <<>>

BulkNext ==
    \/ \E orders \in BulkInputs : TipsaBulkMock(orders) /\ UNCHANGED exceptBulk
    \/ \E orders \in BulkInputs : GlsBulk(orders) /\ UNCHANGED exceptBulk
    \/ \E ok \in BOOLEAN, mock \in BOOLEAN :
           GlsBulkCreateReturns(ok, mock) /\ UNCHANGED exceptBulk
    \/ BulkDone /\ UNCHANGED exceptBulk

(***************************************************************************)
(* services/order_storage.py, api/orders.py and POST /post-to-carrier of   *)
(* api/orchestrator.py.  A stored order keeps the fields the handlers      *)
(* read and write.  The request handlers run from one await to the next    *)
(* in one step; the calls of the storage service are synchronous.          *)
(***************************************************************************)
EstadoValues == {"PENDING", "SENT"}

PostCarriers == {"gls", "tipsa"}

\* OrderStorage(...) for a new order whose OrderStandard has no estado.
NewStoredOrder(order_id) ==
    [order_id |-> order_id, estado_tipsa |-> "PENDING", tracking_number |-> None,
     carrier_code |-> None, synced_to_carrier |-> FALSE]

\* order_id in self.orders
IsStored(list, order_id) == \E i \in 1..Len(list) : list[i].order_id = order_id

\* OrderStorageService.get_order
GetStoredOrder(list, order_id) ==
    IF IsStored(list, order_id)
    THEN Some(list[CHOOSE i \in 1..Len(list) : list[i].order_id = order_id])
    ELSE None

\* OrderStorageService.get_orders_by_status(estado_tipsa = ...)
GetOrdersByStatus(list, estado_tipsa) ==
    SelectSeq(list, LAMBDA o : o.estado_tipsa = estado_tipsa)

\* OrderStorageService.store_order of an order without status fields: a new
\* record, or the existing one with its fields kept.
StoreOrderResult(list, order_id) ==
    IF IsStored(list, order_id) THEN list ELSE Append(list, NewStoredOrder(order_id))

\* An OrderUpdateRequest: a field is None or the value to set.
NoUpdate ==
    [estado_tipsa |-> None, tracking_number |-> None, carrier_code |-> None,
     synced_to_carrier |-> None]

\* The fields of the update that are not None replace the record's.
ApplyUpdate(order, update) ==
    [order EXCEPT
        !.estado_tipsa = IF update.estado_tipsa = None THEN @ ELSE Val(update.estado_tipsa),
        !.tracking_number = IF update.tracking_number = None THEN @ ELSE update.tracking_number,
        !.carrier_code = IF update.carrier_code = None THEN @ ELSE update.carrier_code,
        !.synced_to_carrier = IF update.synced_to_carrier = None
                              THEN @ ELSE Val(update.synced_to_carrier)]

\* OrderStorageService.update_order_status: nothing happens to an unknown id.
UpdateOrderStatusResult(list, order_id, update) ==
    [i \in 1..Len(list) |->
        IF list[i].order_id = order_id THEN ApplyUpdate(list[i], update) ELSE list[i]]

\* OrderStorageService.delete_order
DeleteOrderResult(list, order_id) == SelectSeq(list, LAMBDA o : o.order_id # order_id)

NoPostRequest ==
    [pc |-> "idle", carrier |-> "", orders |-> <<>>, shipments |-> <<>>, idx |-> 0, code |-> 0]

StorageInit ==
    /\ storedOrders = <<>>
    /\ everStored = {}
    /\ postReq = [r \in Callers |-> NoPostRequest]
    /\ submitted = [o \in OrderIds |-> 0]
    /\ postRuns = 0

\* POST /orders/ and the marketplace refresh: store_order.
StoreOrder(order_id) ==
    /\ storedOrders' = StoreOrderResult(storedOrders, order_id)
    /\ everStored' = everStored \cup {order_id}
    /\ UNCHANGED <<postReq, submitted, postRuns>>

\* PUT /orders/{order_id}
PutOrder(order_id, estado_tipsa) ==
    /\ IsStored(storedOrders, order_id)
    /\ storedOrders' = UpdateOrderStatusResult(storedOrders, order_id,
                           [NoUpdate EXCEPT !.estado_tipsa = Some(estado_tipsa)])
    /\ UNCHANGED <<everStored, postReq, submitted, postRuns>>

\* DELETE /orders/{order_id}: 404 for an unknown id.
DeleteOrder(order_id) ==
    /\ storedOrders' = DeleteOrderResult(storedOrders, order_id)
    /\ UNCHANGED <<everStored, postReq, submitted, postRuns>>

\* The orders a request selects: the PENDING ones among the ids given, in
\* the order given, or all the PENDING ones.
SelectedOrders(list, order_ids) ==
    IF order_ids = None THEN GetOrdersByStatus(list, "PENDING")
    ELSE LET ids == SelectSeq(Val(order_ids),
                              LAMBDA id : /\ IsStored(list, id)
                                          /\ Val(GetStoredOrder(list, id)).estado_tipsa = "PENDING")
         IN [i \in 1..Len(ids) |-> Val(GetStoredOrder(list, ids[i]))]

\* The lists of ids a request may name.
PostOrderIds ==
    {None} \cup {Some(ids) : ids \in UNION {[1..n -> OrderIds] : n \in 1..2}}

\* The carrier's ledger after a bulk call was made with these orders.
Submitted(ledger, order_list) ==
    [o \in OrderIds |->
        ledger[o] + Cardinality({i \in 1..Len(order_list) : order_list[i].order_id = o})]

\* post_to_carrier up to `await adapter.create_shipments_bulk(order_data)`.
PostToCarrier(r, carrier, order_ids) ==
    LET selection == SelectedOrders(storedOrders, order_ids) IN
    /\ postReq[r].pc = "idle"
    /\ postRuns < MaxRuns
    /\ postRuns' = postRuns + 1
    /\ IF selection = <<>>
       THEN /\ postReq' = [postReq EXCEPT ![r] = [NoPostRequest EXCEPT !.pc = "done",
                                                                     !.carrier = carrier,
                                                                     !.code = 200]]
            /\ UNCHANGED submitted
       ELSE /\ postReq' = [postReq EXCEPT ![r] = [NoPostRequest EXCEPT !.pc = "create",
                                                                     !.carrier = carrier,
                                                                     !.orders = selection]]
            /\ submitted' = Submitted(submitted, selection)
    /\ UNCHANGED <<storedOrders, everStored>>

\* result.get("shipments", []) of the adapter called: GLS returns the
\* shipments it could create, without a tracking_number key; the TIPSA mock
\* returns one shipment per order.
ShipmentsOf(carrier, order_list, failing) ==
    IF carrier = "gls"
    THEN LET made == SelectSeq(order_list, LAMBDA o : o.order_id \notin failing) IN
         [i \in 1..Len(made) |-> [order_id |-> made[i].order_id, tracking_number |-> None]]
    ELSE [i \in 1..Len(order_list) |->
             [order_id |-> order_list[i].order_id,
              tracking_number |-> Some("1Z" \o order_list[i].order_id \o "000" \o ToString(i))]]

\* The loop `for i, order_storage in enumerate(orders)` from position i on,
\* up to its next await: the order at i is updated when a shipment has the
\* same index, and the handler awaits the operations log.
UpdateFrom(R, i, list) ==
    IF i <= Len(R.orders) /\ i <= Len(R.shipments)
    THEN [req |-> [R EXCEPT !.pc = "log", !.idx = i],
          list |-> UpdateOrderStatusResult(list, R.orders[i].order_id,
                       [estado_tipsa |-> Some("SENT"),
                        tracking_number |-> R.shipments[i].tracking_number,
                        carrier_code |-> Some(R.carrier),
                        synced_to_carrier |-> Some(TRUE)])]
    ELSE [req |-> [R EXCEPT !.pc = "summary", !.idx = Len(R.orders) + 1], list |-> list]

\* The except branch of the handler: HTTP 500.
PostFailed(R) == [R EXCEPT !.pc = "done", !.code = 500]

\* create_shipments_bulk returns or raises.
PostBulkReturns(r, ok, failing) ==
    /\ postReq[r].pc = "create"
    /\ IF ok
       THEN LET R == [postReq[r] EXCEPT
                         !.shipments = ShipmentsOf(postReq[r].carrier, postReq[r].orders, failing)]
                next == UpdateFrom(R, 1, storedOrders)
            IN /\ postReq' = [postReq EXCEPT ![r] = next.req]
               /\ storedOrders' = next.list
       ELSE /\ postReq' = [postReq EXCEPT ![r] = PostFailed(@)]
            /\ UNCHANGED storedOrders
    /\ UNCHANGED <<everStored, submitted, postRuns>>

\* The awaited log of one shipment returns or raises.
PostLogReturns(r, ok) ==
    /\ postReq[r].pc = "log"
    /\ IF ok
       THEN LET next == UpdateFrom(postReq[r], postReq[r].idx + 1, storedOrders)
            IN /\ postReq' = [postReq EXCEPT ![r] = next.req]
               /\ storedOrders' = next.list
       ELSE /\ postReq' = [postReq EXCEPT ![r] = PostFailed(@)]
            /\ UNCHANGED storedOrders
    /\ UNCHANGED <<everStored, submitted, postRuns>>

\* The awaited log of the whole operation returns or raises.
PostSummaryReturns(r, ok) ==
    /\ postReq[r].pc = "summary"
    /\ postReq' = [postReq EXCEPT ![r] = IF ok THEN [@ EXCEPT !.pc = "done", !.code = 200]
                                               ELSE PostFailed(@)]
    /\ UNCHANGED <<storedOrders, everStored, submitted, postRuns>>

\* The response has been sent.
PostDone(r) ==
    /\ postReq[r].pc = "done"
    /\ postReq' = [postReq EXCEPT ![r] = NoPostRequest]
    /\ UNCHANGED <<storedOrders, everStored, submitted, postRuns>>

\* The orders API beside one post-to-carrier request at a time.
StorageNext ==
    \/ \E order_id \in OrderIds : StoreOrder(order_id) /\ UNCHANGED exceptStorage
    \/ \E order_id \in OrderIds, estado \in EstadoValues :
           PutOrder(order_id, estado) /\ UNCHANGED exceptStorage
    \/ \E order_id \in OrderIds : DeleteOrder(order_id) /\ UNCHANGED exceptStorage
    \/ \E carrier \in PostCarriers, order_ids \in PostOrderIds :
           PostToCarrier(1, carrier, order_ids) /\ UNCHANGED exceptStorage
    \/ \E ok \in BOOLEAN, failing \in SUBSET OrderIds :
           PostBulkReturns(1, ok, failing) /\ UNCHANGED exceptStorage
    \/ \E ok \in BOOLEAN : PostLogReturns(1, ok) /\ UNCHANGED exceptStorage
    \/ \E ok \in BOOLEAN : PostSummaryReturns(1, ok) /\ UNCHANGED exceptStorage
    \/ PostDone(1) /\ UNCHANGED exceptStorage

\* Overlapping post-to-carrier requests on orders that are only ever stored.
PostNext ==
    \/ \E order_id \in OrderIds : StoreOrder(order_id) /\ UNCHANGED exceptStorage
    \/ \E r \in Callers, carrier \in PostCarriers, order_ids \in PostOrderIds :
           PostToCarrier(r, carrier, order_ids) /\ UNCHANGED exceptStorage
    \/ \E r \in Callers, ok \in BOOLEAN, failing \in SUBSET OrderIds :
           PostBulkReturns(r, ok, failing) /\ UNCHANGED exceptStorage
    \/ \E r \in Callers, ok \in BOOLEAN : PostLogReturns(r, ok) /\ UNCHANGED exceptStorage
    \/ \E r \in Callers, ok \in BOOLEAN : PostSummaryReturns(r, ok) /\ UNCHANGED exceptStorage
    \/ \E r \in Callers : PostDone(r) /\ UNCHANGED exceptStorage

(***************************************************************************)
(* The two sources of tracking updates side by side: the manual poll cycle *)
(* and POST /gls/webhook/tracking-update, on shipments that                *)
(* POST /mirakl-to-gls recorded.                                           *)
(***************************************************************************)
\* The statuses GLS reports, in the order a shipment goes through them.
TrackingStatuses == <<"CREATED", "IN_TRANSIT", "DELIVERED">>

ReportedStatuses == {TrackingStatuses[i] : i \in DOMAIN TrackingStatuses}

\* The webhook payloads for the shipments in the store.
TrackingPayloads ==
    {[tracking_number |-> tn, status |-> st, order_reference |-> ""] :
        tn \in TrackingNumbersInStore \ {""}, st \in ReportedStatuses}

NoPollCycle == \A t \in TaskIds : tasks[t].kind = "none"

TrackingNext ==
    \/ \E order_id \in OrderIds : ShipmentCreated(order_id) /\ UNCHANGED exceptStore
    \/ NoPollCycle /\ PollOnce /\ UNCHANGED exceptPollerTasks
    \/ \E t \in TaskIds, outcome \in ReportedStatuses \cup {"raises"} :
           StatusReturns(t, outcome) /\ UNCHANGED exceptPollerTasks
    \/ \E t \in TaskIds, ok \in BOOLEAN : PushReturns(t, ok) /\ UNCHANGED exceptPollerStore
    \/ \E t \in TaskIds, ok \in BOOLEAN : LogReturns(t, ok) /\ UNCHANGED exceptPollerTasks
    \/ \E e \in GlsEventIds, payload \in TrackingPayloads :
           GlsTrackingWebhook(e, payload) /\ UNCHANGED exceptStore

(***************************************************************************)
(* MiraklAdapter.get_all_orders: offset/limit pagination over get_orders   *)
(* with a ceiling on the number of pages.  The marketplace answers a page  *)
(* request with any number of orders up to the limit, or the request       *)
(* fails.  An order is modelled by the offset of its page and its place in *)
(* the page.                                                               *)
(***************************************************************************)
BatchSizes == 1..MaxBatch

\* The max_pages arguments of the calls; 0 is below what the ceiling is
\* meant for.
MaxPagesValues == 0..MaxPagesParam

\* A page of n orders answered to the request with this offset.
Page(at, n) == [i \in 1..n |-> <<at, i>>]

PagesInit ==
    /\ gaoPc = "idle"
    /\ batch_size = 1
    /\ max_pages = 1
    /\ offset = 0
    /\ pages = 0
    /\ all_orders = <<>>
    /\ pageRequests = <<>>
    /\ pageBatches = <<>>

\* A ceiling that is never reached.
CeilingNever(n, ceiling) == FALSE

\* if pages >= max_pages: break
CeilingReached(n, ceiling) == n >= ceiling

\* get_all_orders up to its first `await self.get_orders(limit=batch_size,
\* offset=offset, ...)`.
GetAllOrders(size, ceiling) ==
    /\ gaoPc = "idle"
    /\ gaoPc' = "request"
    /\ batch_size' = size
    /\ max_pages' = ceiling
    /\ offset' = 0
    /\ pages' = 0
    /\ all_orders' = <<>>
    /\ pageRequests' = <<0>>
    /\ pageBatches' = <<>>

\* get_orders returns a page of n orders: extend, stop on a short or empty
\* page, otherwise advance and stop at the ceiling or request the next page.
PageReturns(n) ==
    LET batch == Page(offset, n) IN
    /\ gaoPc = "request"
    /\ all_orders' = all_orders \o batch
    /\ pageBatches' = Append(pageBatches, batch)
    /\ IF Len(batch) < batch_size \/ batch = <<>>
       THEN /\ gaoPc' = "returned"
            /\ UNCHANGED <<offset, pages, pageRequests>>
       ELSE /\ offset' = offset + batch_size
            /\ pages' = pages + 1
            /\ IF CeilingReached(pages + 1, max_pages)
               THEN /\ gaoPc' = "returned"
                    /\ UNCHANGED pageRequests
               ELSE /\ Len(pageRequests) < MaxRequests
                    /\ gaoPc' = "request"
                    /\ pageRequests' = Append(pageRequests, offset + batch_size)
    /\ UNCHANGED <<batch_size, max_pages>>

\* get_orders raises (timeout, HTTP error): get_all_orders has no handler
\* and raises to its caller.
PageRaises ==
    /\ gaoPc = "request"
    /\ gaoPc' = "raised"
    /\ UNCHANGED <<batch_size, max_pages, offset, pages, all_orders, pageRequests,
                   pageBatches>>

\* The caller has the result; the adapter can be called again.
GetAllOrdersDone ==
    /\ gaoPc \in {"returned", "raised"}
    /\ gaoPc' = "idle"
    /\ UNCHANGED <<batch_size, max_pages, offset, pages, all_orders, pageRequests,
                   pageBatches>>

PagesNext ==
    \/ \E size \in BatchSizes, ceiling \in MaxPagesValues :
           GetAllOrders(size, ceiling) /\ UNCHANGED exceptPages
    \/ \E n \in 0..MaxBatch : n <= batch_size /\ PageReturns(n) /\ UNCHANGED exceptPages
    \/ PageRaises /\ UNCHANGED exceptPages
    \/ GetAllOrdersDone /\ UNCHANGED exceptPages

(***************************************************************************)
(* core/utils/http_client.py: put_with_retry.  The server answers a PUT    *)
(* with a status code and possibly a Retry-After header, or the request    *)
(* fails in transport.                                                     *)
(***************************************************************************)
StatusCodes == {200, 429, 500}

\* response.headers.get("Retry-After"): absent, a number of seconds, or a
\* text that int() rejects.
RetryAfterValues == {None, Some("1"), Some("soon")}

MaxRetriesValues == 0..MaxRetriesParam

NoResponse == [status_code |-> 0, retry_after |-> None]

RECURSIVE Pow2(_)
\* 2 ** attempt
Pow2(n) == IF n = 0 THEN 1 ELSE 2 * Pow2(n - 1)

\* int(retry_after) if retry_after else 2 ** attempt, and 2 ** attempt when
\* int() raises ValueError.
WaitTime(retry_after, n) ==
    IF retry_after = None \/ Val(retry_after) = "" THEN Pow2(n)
    ELSE IF Val(retry_after) = "1" THEN 1
    ELSE Pow2(n)

RetryInit ==
    /\ putPc = "idle"
    /\ max_retries = 0
    /\ attempt = 0
    /\ putResponse = NoResponse
    /\ wait_time = 0
    /\ putsSent = 0

\* A budget that is never spent.
RetriesExceededNever(n, budget) == FALSE

\* if attempt > max_retries
RetriesExceeded(n, budget) == n > budget

\* put_with_retry up to its first `await client.put(...)`.
PutWithRetry(budget) ==
    /\ putPc = "idle"
    /\ putPc' = "put"
    /\ max_retries' = budget
    /\ attempt' = 0
    /\ putResponse' = NoResponse
    /\ wait_time' = 0
    /\ putsSent' = 1

\* client.put returns a response.
PutResponds(code, retry_after) ==
    /\ putPc = "put"
    /\ putResponse' = [status_code |-> code, retry_after |-> retry_after]
    /\ IF code # 429
       \* response.raise_for_status(); return response
       THEN /\ putPc' = IF code >= 400 THEN "raised" ELSE "returned"
            /\ UNCHANGED <<attempt, wait_time>>
       ELSE /\ attempt' = attempt + 1
            /\ wait_time' = WaitTime(retry_after, attempt + 1)
            /\ putPc' = IF RetriesExceeded(attempt + 1, max_retries)
                        THEN "raised" ELSE "sleep"
    /\ UNCHANGED <<max_retries, putsSent>>

\* client.put raises (timeout, connection error).
PutRaises ==
    /\ putPc = "put"
    /\ putPc' = "raised"
    /\ UNCHANGED <<max_retries, attempt, putResponse, wait_time, putsSent>>

\* asyncio.sleep(wait_time) is over: the next PUT is sent.
PutRetry ==
    /\ putPc = "sleep"
    /\ putsSent < MaxPuts
    /\ putPc' = "put"
    /\ putsSent' = putsSent + 1
    /\ UNCHANGED <<max_retries, attempt, putResponse, wait_time>>

\* The caller has the response or the exception.
PutDone ==
    /\ putPc \in {"returned", "raised"}
    /\ putPc' = "idle"
    /\ UNCHANGED <<max_retries, attempt, putResponse, wait_time, putsSent>>

RetryNext ==
    \/ \E budget \in MaxRetriesValues : PutWithRetry(budget) /\ UNCHANGED exceptRetry
    \/ \E code \in StatusCodes, retry_after \in RetryAfterValues :
           PutResponds(code, retry_after) /\ UNCHANGED exceptRetry
    \/ PutRaises /\ UNCHANGED exceptRetry
    \/ PutRetry /\ UNCHANGED exceptRetry
    \/ PutDone /\ UNCHANGED exceptRetry

NoCallInFlight == \A q \in Callers : callPc[q] = "idle"

IdemNext ==
    \/ \E p \in Callers, o \in IdemOrders : CallBegin(p, o) /\ UNCHANGED exceptIdem
    \/ \E p \in Callers : CallHeadersFail(p) /\ UNCHANGED exceptIdem
    \/ \E p \in Callers : CallPost(p) /\ UNCHANGED exceptIdem
    \/ \E p \in Callers : CallCreated(p) /\ UNCHANGED exceptIdem
    \/ \E p \in Callers : CallFailed(p) /\ UNCHANGED exceptIdem
    \/ \E p \in Callers : CallReturn(p) /\ UNCHANGED exceptIdem

\* Successive calls: a call begins only when no other call is in progress.
IdemSeqNext ==
    \/ \E p \in Callers, o \in IdemOrders :
           NoCallInFlight /\ CallBegin(p, o) /\ UNCHANGED exceptIdem
    \/ \E p \in Callers : CallHeadersFail(p) /\ UNCHANGED exceptIdem
    \/ \E p \in Callers : CallPost(p) /\ UNCHANGED exceptIdem
    \/ \E p \in Callers : CallCreated(p) /\ UNCHANGED exceptIdem
    \/ \E p \in Callers : CallFailed(p) /\ UNCHANGED exceptIdem
    \/ \E p \in Callers : CallReturn(p) /\ UNCHANGED exceptIdem

Init ==
    /\ IdemInit /\ TokInit /\ WhInit /\ StoreInit /\ DispInit /\ SelInit /\ EngInit /\ PollInit
    /\ UploadInit /\ BulkInit /\ StorageInit /\ PagesInit /\ RetryInit

SpecToken == Init /\ [][TokNext]_vars

SpecWebhook == Init /\ [][WhNext]_vars

SpecStore == Init /\ [][StoreNext]_vars

SpecGlsWebhook == Init /\ [][GlsWebhookNext]_vars

SpecDispatch == Init /\ [][DispNext]_vars

SpecIdem == Init /\ [][IdemNext]_vars

SpecIdemSeq == Init /\ [][IdemSeqNext]_vars

SpecSelector == Init /\ [][SelNext]_vars

SpecEngine == Init /\ [][EngNext]_vars

\* A carrier whose answers do not change while the poller runs: the
\* shipment of A is still where it was when it was created, the shipment of
\* B has been delivered.
CarrierReports(order_id) == IF order_id = "B" THEN "DELIVERED" ELSE "CREATED"

\* The order whose status a task is waiting for.
QueriedOrder(t) == tasks[t].active[tasks[t].idx].mirakl_order_id

\* get_shipment_status returns what the carrier reports for the order.
StatusSucceeds(t, order_id) ==
    /\ tasks[t].pc = "status"
    /\ QueriedOrder(t) = order_id
    /\ StatusReturns(t, CarrierReports(order_id))
    /\ UNCHANGED exceptPollerTasks

\* get_shipment_status raises.
StatusFails(t) == StatusReturns(t, "raises") /\ UNCHANGED exceptPollerTasks

\* update_order_tracking returns.
PushSucceeds(t) == PushReturns(t, TRUE) /\ UNCHANGED exceptPollerStore

\* The running poller against that carrier and a marketplace that accepts
\* every push; a status query may fail.
PollSteadyNext ==
    \/ Start /\ UNCHANGED exceptPollerTasks
    \/ \E t \in TaskIds : TaskStartStep(t)
    \/ \E t \in TaskIds : WakeStep(t)
    \/ \E t \in TaskIds, order_id \in OrderIds : StatusSucceeds(t, order_id)
    \/ \E t \in TaskIds : StatusFails(t)
    \/ \E t \in TaskIds : PushSucceeds(t)
    \/ \E t \in TaskIds : LogStep(t)
    \/ \E order_id \in OrderIds : ShipmentCreated(order_id) /\ UNCHANGED exceptStore

\* The event loop runs a task that is ready and the sleep between two
\* cycles ends; an awaited push or log call ends; the status query of an
\* order may fail, but not forever.
PollSteadyFairness ==
    \A t \in TaskIds :
        /\ WF_vars(TaskStartStep(t))
        /\ WF_vars(WakeStep(t))
        /\ WF_vars(LogStep(t))
        /\ WF_vars(PushStep(t))
        /\ \A order_id \in OrderIds : SF_vars(StatusSucceeds(t, order_id))

SpecPoller == Init /\ [][PollNext]_vars

SpecPollerSteady == Init /\ [][PollSteadyNext]_vars /\ PollSteadyFairness

SpecPollerRunning == Init /\ [][PollRunningNext]_vars /\ PollFairness

SpecPollOnce == Init /\ [][PollOnceNext]_vars

SpecTracking == Init /\ [][TrackingNext]_vars

SpecUpload == Init /\ [][UploadNext]_vars

SpecBulk == Init /\ [][BulkNext]_vars

SpecStorage == Init /\ [][StorageNext]_vars

SpecPostToCarrier == Init /\ [][PostNext]_vars

SpecPages == Init /\ [][PagesNext]_vars

SpecRetry == Init /\ [][RetryNext]_vars

(***************************************************************************)
(* Properties of the idempotency cache.                                    *)
(***************************************************************************)

\* C1: under any interleaving of concurrent create_shipment_with_idempotency
\* calls on one adapter, the carrier is asked to create at most one shipment
\* per fingerprint; in particular it never creates two shipments for one
\* fingerprint.
C1_AtMostOneCreationPerFingerprint ==
    \A k \in IdemKeys : createdShipments[k] <= 1

C10_CachedOnlyBeforeExpiry ==
    /\ access_token # None =>
          token_expires_at =
              Some(Val(access_token).issued_at + Val(access_token).expires_in - 60)
    /\ tokLast.kind = "cached" =>
          tokLast.at < tokLast.token.issued_at + tokLast.token.expires_in - 60
    /\ tokLast.kind = "fresh" => tokLast.token.issued_at = tokLast.at

\* A token was returned from the cache some time after its exchange, in the
\* last step before its expiry.
C10_Witness ==
    /\ tokLast.kind = "cached"
    /\ tokLast.at > tokLast.token.issued_at
    /\ \E d \in ClockSteps :
          tokLast.at + d >= tokLast.token.issued_at + tokLast.token.expires_in - 60

(***************************************************************************)
(* Properties of the webhook endpoint and of WebhookService.               *)
(***************************************************************************)
StaleTimestamp(x_timestamp) ==
    /\ x_timestamp # None
    /\ Val(x_timestamp).kind \in {"naive", "aware"}
    /\ Val(x_timestamp).age > 300

\* C7: a webhook whose timestamp is more than 5 minutes (300 seconds) older
\* than the time of receipt is rejected whatever its signature: the endpoint
\* does not hand the event to the adapter for processing, and
\* validate_webhook answers False.
C7_StaleTimestampRejected ==
    StaleTimestamp(whLast.x_timestamp) =>
        /\ ~whLast.response.processed
        /\ whLast.op = "validate_webhook" => whLast.response.status = "invalid"
        /\ whLast.op = "receive_webhook" =>
              whLast.response \in {HttpError(400), ProcessingFailed}

\* A stale webhook that carried the signature the endpoint accepts, a JSON
\* body and a carrier whose adapter processes events was turned away.
C7_Witness ==
    /\ whLast.op = "receive_webhook"
    /\ whLast.carrier = "correosex"
    /\ whLast.sig = "sha256-concat"
    /\ whLast.body = "e1"
    /\ StaleTimestamp(whLast.x_timestamp)
    /\ Val(whLast.x_timestamp).kind = "naive"
    /\ Val(whLast.x_timestamp).age = 301
    /\ whLast.response.code = 400

\* C8: an event reaches processing in receive_webhook only if the request
\* carried a signature and that signature validated against the carrier's
\* shared secret.
C8_ProcessedOnlyIfSigned ==
    (whLast.op = "receive_webhook" /\ whLast.response.processed) =>
        /\ whLast.x_signature # None
        /\ ValidateWebhookSignature(whLast.body, Val(whLast.x_signature),
                                    Val(WebhookSecret(whLast.carrier)))

\* C9: whatever the outcome, receive_webhook never answers with an HTTP
\* failure status.
C9_NeverHttpFailure ==
    whLast.op = "receive_webhook" => whLast.response.code < 400

(***************************************************************************)
(* Properties of the dispatch endpoints.                                   *)
(***************************************************************************)
FetchedOrders == IF dispatchLast.mirakl = None THEN <<>> ELSE Val(dispatchLast.mirakl)

GroupCarriers == {SelectCarrier(FetchedOrders[i]) : i \in 1..Len(FetchedOrders)}

HealthyOrderIds ==
    {FetchedOrders[i].order_id : i \in
        {j \in 1..Len(FetchedOrders) :
            dispatchLast.outcome[SelectCarrier(FetchedOrders[j])] = "ok"}}

\* The response reports success, returns exactly the shipments of the orders
\* routed to healthy carriers, and the breakdown of every group tells whether
\* its carrier failed.
FailuresIsolated ==
    LET r == dispatchLast.response IN
    /\ r.success
    /\ r.code = 200
    /\ Len(r.shipments) = Cardinality(HealthyOrderIds)
    /\ {r.shipments[i].order_id : i \in 1..Len(r.shipments)} = HealthyOrderIds
    /\ \A i \in 1..Len(r.shipments) :
          \E j \in 1..Len(FetchedOrders) :
              /\ FetchedOrders[j].order_id = r.shipments[i].order_id
              /\ SelectCarrier(FetchedOrders[j]) = r.shipments[i].carrier
    /\ DOMAIN r.breakdown = GroupCarriers
    /\ \A c \in GroupCarriers :
          IF dispatchLast.outcome[c] = "ok"
          THEN /\ r.breakdown[c].error = None
               /\ r.breakdown[c].shipments = r.breakdown[c].orders
          ELSE /\ r.breakdown[c].error # None
               /\ r.breakdown[c].shipments = 0

\* C6 as stated: for any split of the fetched orders into carrier groups and
\* any set of carriers whose adapter raises, load-orders returns the healthy
\* carriers' shipments, reports success, and the breakdown of each failing
\* carrier has a populated (non-empty) error.
C6_FailingCarrierHasPopulatedError ==
    (dispatchLast.op = "load_orders" /\ dispatchLast.mirakl # None) =>
        /\ FailuresIsolated
        /\ \A c \in GroupCarriers :
              dispatchLast.outcome[c] # "ok" =>
                  Val(dispatchLast.response.breakdown[c].error) # ""

\* C6 (amended): as above, but the error field of a failing carrier holds the
\* text of the exception, str(e), whatever it is.
C6_FailingCarrierIsolated ==
    (dispatchLast.op = "load_orders" /\ dispatchLast.mirakl # None) =>
        /\ FailuresIsolated
        /\ \A c \in GroupCarriers :
              dispatchLast.outcome[c] # "ok" =>
                  dispatchLast.response.breakdown[c].error = Some(dispatchLast.outcome[c])

\* Two orders were split over two carriers, the first group's carrier raised
\* and the second group's shipment was still returned.
C6_Witness ==
    /\ dispatchLast.op = "load_orders"
    /\ Len(FetchedOrders) = 2
    /\ Cardinality(GroupCarriers) = 2
    /\ dispatchLast.outcome[SelectCarrier(FetchedOrders[1])] = "HTTP 500"
    /\ dispatchLast.outcome[SelectCarrier(FetchedOrders[2])] = "ok"
    /\ Len(dispatchLast.response.shipments) = 1
    /\ dispatchLast.response.shipments[1].order_id = FetchedOrders[2].order_id
    /\ dispatchLast.response.success

(***************************************************************************)
(* Properties of the order store and of the endpoints that write it.       *)
(***************************************************************************)

\* Position of a state in the lifecycle; 0 for a state outside it.
LifecycleRank(state) ==
    CASE state = "PENDING_POST" -> 1
      [] state = "POSTED" -> 2
      [] state = "AWAITING_TRACKING" -> 3
      [] state = "CONFIRMED" -> 4
      [] state = "DELIVERED" -> 5
      [] OTHER -> 0

\* The internal_state the store holds for an order ("" when it has none).
StateOf(header, rows, order_id) ==
    LET order == GetOrder(rows, order_id) IN
    IF order = None \/ "internal_state" \notin header THEN ""
    ELSE Val(order)["internal_state"]

\* C2: over every sequence of store operations the internal_state of an
\* order never moves backward in PENDING_POST, POSTED, AWAITING_TRACKING,
\* CONFIRMED, DELIVERED: a write that would move it backward leaves the
\* stored state where it was.
C2_StateNeverRegresses ==
    [][\A order_id \in OrderIds :
          LET before == LifecycleRank(StateOf(csvHeader, csvRows, order_id))
              after == LifecycleRank(StateOf(csvHeader', csvRows', order_id))
          IN (before > 0 /\ after > 0) => after >= before]_vars

\* C3: an event delivered twice to the tracking webhook, its order being in
\* the store both times, changes the store exactly once, and the second
\* delivery is answered as a duplicate.
C3_SecondDeliveryIsDuplicate ==
    \A e \in GlsEventIds :
        (glsLog[e].count = 2 /\ glsLog[e].found = 2) =>
            /\ glsLog[e].mutations = 1
            /\ glsLog[e].duplicate

\* C5: an order that appears in two dispatch runs (load-orders or
\* mirakl-to-gls) gets at most one shipment at any carrier.
C5_AtMostOneShipmentPerOrder ==
    \A c \in AllCarriers, o \in OrderIds : carrierShipments[c][o] <= 1

(***************************************************************************)
(* Single flight of the token exchange.                                    *)
(***************************************************************************)
\* The callers of _get_oauth_token whose token request is outstanding.
Exchanging == {p \in Callers : tokPc[p] = "exchanging"}

\* C11: concurrent callers that find no valid token converge on a single
\* in-flight grant exchange: at most one token request is outstanding at
\* any time.
C11_SingleExchangeInFlight == Cardinality(Exchanging) <= 1

(***************************************************************************)
(* Properties of upsert_order: merging, created_at, failed writes.         *)
(***************************************************************************)
\* The record of an order holds every pair of a field dictionary.
Holds(order, fields) ==
    /\ order # None
    /\ \A c \in DOMAIN fields : c \in DOMAIN Val(order) /\ Val(order)[c] = fields[c]

\* The record of an order in the file before a step kept every column the
\* dictionary `fields` does not mention, updated_at apart.
KeptOtherColumns(order_id, fields) ==
    LET old == GetOrder(csvRows, order_id)
        new == GetOrder(csvRows', order_id)
    IN old # None =>
          /\ new # None
          /\ \A c \in (DOMAIN Val(old)) \ ((DOMAIN fields) \cup {"updated_at"}) :
                 c \in DOMAIN Val(new) /\ Val(new)[c] = Val(old)[c]

\* C12: upserts of one order_id issued by concurrent call paths run one
\* after the other, and none is lost: after an upsert_order call on an
\* order that has a record, the record holds the fields of the call and
\* keeps what the earlier calls wrote to the other columns.
C12_NoUpdateLost ==
    [][\A order_id \in OrderIds, fields \in UpsertFields :
          (GetOrder(csvRows, order_id) # None /\ UpsertOrder(order_id, fields)) =>
              /\ Holds(GetOrder(csvRows', order_id), fields)
              /\ KeptOtherColumns(order_id, fields)]_vars

\* Two field dictionaries with no column in common.
DisjointFields ==
    {ab \in UpsertFields \X UpsertFields : (DOMAIN ab[1]) \cap (DOMAIN ab[2]) = {}}

\* C13: whatever the file holds, upsert(order_id, a) followed by
\* upsert(order_id, b) and get(order_id) yields a record with the pairs of
\* a and of b.
C13_UpsertThenUpsertThenGet ==
    \A order_id \in OrderIds, ab \in DisjointFields :
        LET first == UpsertOrderResult(csvHeader, csvRows, order_id, ab[1], clock)
            second == UpsertOrderResult(first.header, first.rows, order_id, ab[2], clock + 1)
            got == GetOrder(second.rows, order_id)
        IN Holds(got, ab[1]) /\ Holds(got, ab[2])

C15_FailedWriteKeepsRecords ==
    [][(clock' # clock /\ storeLast'.raised) =>
          /\ \A order_id \in OrderIds :
                 GetOrder(csvRows, order_id) # None => GetOrder(csvRows', order_id) # None
          /\ storeLast'.op = "upsert_order" =>
                 (csvRows' = csvRows /\ csvHeader' = csvHeader)]_vars

(***************************************************************************)
(* What a cache hit returns.                                               *)
(***************************************************************************)
\* The results create_shipment has returned so far for the orders of one
\* fingerprint: the mock's, or one per shipment the carrier created.
RecordedResults(o) ==
    LET key == GenerateIdempotencyKey(o) IN
    {[kind |-> "created", track_id |-> <<"GLS", o.order_id>>] : m \in {mock_mode} \ {FALSE}}
        \cup {[kind |-> "created", track_id |-> <<"GLS", o.order_id, n>>] :
                  n \in 1..createdShipments[key]}

\* C16: a call that hit the cache returns the result recorded by the
\* earlier successful call for its fingerprint: the same shipment identifier
\* and tracking data.
C16_HitReturnsRecordedResult ==
    \A p \in Callers :
        (callPc[p] = "done" /\ callHit[p]) => callResult[p] \in RecordedResults(callOrder[p])

(***************************************************************************)
(* The dispatch endpoints and the order store.                             *)
(***************************************************************************)
\* C17: when a dispatch request returns, every shipment it created is
\* recorded in the order store: the record of its order has internal_state
\* POSTED.
C17_CreatedShipmentsRecordedPosted ==
    [][dispatchRuns' # dispatchRuns =>
          \A i \in 1..Len(dispatchLast'.response.shipments) :
              StateOf(csvHeader', csvRows', dispatchLast'.response.shipments[i].order_id)
                  = "POSTED"]_vars

\* row.get(column, ""): the text of a column, empty when the file has no
\* such column.
ColumnOf(row, column) == IF column \in DOMAIN row THEN row[column] ELSE ""

\* POSTED or a later state of the lifecycle; MIRAKL_OK, which the dispatch
\* endpoints write once the carrier and the marketplace have the shipment,
\* counts as later than POSTED.
PostedOrLater(state) == LifecycleRank(state) >= 2 \/ state = "MIRAKL_OK"

\* C18: in every state of the order store a record with a carrier_code or a
\* tracking_number has internal_state POSTED or later; a record in
\* PENDING_POST has neither.
C18_CarrierFieldsOnlyOncePosted ==
    \A i \in 1..Len(csvRows) :
        (ColumnOf(csvRows[i], "carrier_code") # "" \/ ColumnOf(csvRows[i], "tracking_number") # "")
            => PostedOrLater(ColumnOf(csvRows[i], "internal_state"))

(***************************************************************************)
(* Properties of carrier selection.                                        *)
(***************************************************************************)
\* C19: for every order dictionary, the empty and the malformed ones
\* included, select_carrier returns a carrier code that has an adapter
\* registered in CARRIER_ADAPTERS.
C19_SelectedCarrierIsConfigured ==
    selected.op = "select_carrier" => selected.carrier \in OrchestratorAdapters

\* select_carrier was called with a malformed order (a null weight and an
\* address that is not a dictionary) and returned the fallback carrier.
C19_Witness ==
    /\ selected.op = "select_carrier"
    /\ selected.order.weight = Null
    /\ selected.order.shipping_address.kind = "text"
    /\ selected.carrier = "tipsa"

\* The carrier is the target of a rule that applies to the order and has the
\* highest priority among the rules that apply.
MaximalMatch(list, order, carrier) ==
    \E i \in 1..Len(list) :
        /\ Matches(list[i], order)
        /\ list[i].carrier = carrier
        /\ \A j \in 1..Len(list) :
               Matches(list[j], order) => list[j].priority <= list[i].priority

\* C20: after any sequence of add_rule and remove_rule calls the rules are
\* held in descending priority order, and get_carrier_for_order returns the
\* target of a rule of maximal priority among those whose predicate is true
\* for the order, whenever there is one.
C20_FirstMatchHasMaximalPriority ==
    /\ \A i \in 1..Len(rules), j \in 1..Len(rules) :
           i < j => rules[i].priority >= rules[j].priority
    /\ (engineLast.op = "get_carrier_for_order"
            /\ \E i \in 1..Len(rules) : Matches(rules[i], engineLast.order))
           => MaximalMatch(rules, engineLast.order, engineLast.carrier)

\* Rules were added and removed, and an order that is both heavy and
\* express goes to the carrier of the weight rule.
C20_Witness ==
    /\ engineLast.op = "get_carrier_for_order"
    /\ engineLast.order.weight = Some(25)
    /\ engineLast.order.service_type = "express"
    /\ engineLast.carrier = "tipsa"
    /\ \E i \in 1..Len(rules) : rules[i].name = "express_fedex"
    /\ \E i \in 1..Len(rules) : rules[i].name = "medium_packages"
    /\ ~\E i \in 1..Len(rules) : rules[i].name = "cod_orders"

\* What selection returns when a failure of one rule's test counts as "the
\* rule does not match" and the rules after it are still tried.
IsolatedSelection(order) ==
    LET weight == Get(order.weight, Number(0))
        address == order.shipping_address
        country == IF address.kind = "missing" THEN Text("ES")
                   ELSE Get(address.country, Text("ES"))
    IN IF weight.kind = "number" /\ weight.num > 20 THEN "tipsa"
       ELSE IF order.payment_method = Text("COD") THEN "tipsa"
       ELSE IF order.shipping_speed = Text("EXPRESS") THEN "dhl"
       ELSE IF address.kind \in {"missing", "dict"} /\ country # Text("ES") THEN "dhl"
       ELSE "tipsa"

\* C21: a failure while one rule's predicate is evaluated counts as "does
\* not match" for that rule alone; the rules of lower priority are still
\* evaluated and decide the carrier.
C21_RuleFailureIsolated ==
    selected.op = "select_carrier" => selected.carrier = IsolatedSelection(selected.order)

\* The rules whose predicate is always true.
AlwaysRules == {i \in 1..Len(rules) : rules[i].condition.type = "always"}

\* C22: in every state of the rules engine exactly one rule has an
\* always-true predicate, and it has the lowest priority.
C22_ExactlyOneCatchAll ==
    /\ Cardinality(AlwaysRules) = 1
    /\ \A i \in AlwaysRules, j \in 1..Len(rules) : rules[i].priority <= rules[j].priority

\* The three orders of the routing scenario.
ScenarioOrder(weight, country) ==
    [weight |-> Number(weight), payment_method |-> Missing, shipping_speed |-> Missing,
     shipping_address |-> Address("dict", Text(country))]

LightDomestic == ScenarioOrder(2, "ES")

HeavyDomestic == ScenarioOrder(25, "ES")

LightAbroad == ScenarioOrder(2, "FR")

\* C23 as stated: the carriers of the three scenario orders differ pairwise.
C23_ThreeCarriersDiffer ==
    (selected.op = "select_carrier" /\ selected.order = HeavyDomestic) =>
        /\ selected.carrier # select_carrier(LightDomestic)
        /\ selected.carrier # select_carrier(LightAbroad)
        /\ select_carrier(LightDomestic) # select_carrier(LightAbroad)

\* C23: under the default rules the orders {2 kg, ES}, {25 kg, ES} and
\* {2 kg, FR} go to tipsa, tipsa and dhl: the heavy-package carrier is the
\* default domestic carrier, the international carrier is another one.
C23_ScenarioCarriers ==
    selected.op = "select_carrier" =>
        /\ selected.order = LightDomestic => selected.carrier = "tipsa"
        /\ selected.order = HeavyDomestic => selected.carrier = "tipsa"
        /\ selected.order = LightAbroad => selected.carrier = "dhl"

\* The international order of the scenario was routed.
C23_Witness ==
    /\ selected.op = "select_carrier"
    /\ selected.order = LightAbroad
    /\ selected.carrier = "dhl"

(***************************************************************************)
(* Properties of the GLS tracking poller.                                  *)
(***************************************************************************)
\* Tasks whose cancellation stop() has requested and that have not ended yet.
CancelledTasks == {t \in TaskIds : tasks[t].cancel /\ tasks[t].pc # "done"}

C25_NeverCancelledMidUpdate ==
    \A t \in TaskIds : ~(tasks[t].cancel /\ tasks[t].pc = "push")

\* C26: an exception raised while an order is handled (by the status query,
\* the marketplace push or the store write) does not end the cycle: every
\* cycle of the loop goes through all the tracked orders it fetched.
C26_OrderErrorDoesNotAbortCycle ==
    \A t \in TaskIds : tasks[t].complete

\* The handling of an order raised, and the cycle is querying a later order.
C26_Witness ==
    \E t \in TaskIds :
        /\ tasks[t].last.outcome \in OrderErrors
        /\ tasks[t].pc = "status"
        /\ tasks[t].idx > tasks[t].last.idx

\* C27: in a cycle of poll_once, every tracked order for which GLS reports
\* a status other than the recorded one, and whose push the marketplace
\* accepts, has the change recorded in the store; the body ends for it in
\* "recorded", never in an exception of the store.
C27_ChangedOrderPushedAndRecorded ==
    \A t \in TaskIds : tasks[t].last.outcome # "store_raised"

\* C28: while the poller is running, whatever fails inside a cycle, a
\* further cycle is eventually begun.
C28_FurtherCycleAlwaysBegins ==
    \A b \in BOOLEAN : (running /\ cycleBit = b) ~> (cycleBit # b)

\* The handling of an order has failed in a cycle that is not the first of
\* its task.
C28_Witness ==
    \E t \in TaskIds :
        /\ running
        /\ tasks[t].kind = "loop"
        /\ tasks[t].last.outcome \in OrderErrors
        /\ ~cycleBit

\* C29: the cycle never queries GLS for an order whose internal_state in
\* the store is DELIVERED or FAILED at the time of the query.
C29_TerminalOrderNeverPolled ==
    \A t \in TaskIds : ~tasks[t].staleQuery

\* C30: once the status query or the marketplace push of an order has
\* raised, the order's internal_state in the store is FAILED.
C30_FailedOrderMarkedFailed ==
    \A t \in TaskIds :
        tasks[t].last.outcome \in {"status_raised", "push_raised"} =>
            StoredState(csvRows, tasks[t].active[tasks[t].last.idx].mirakl_order_id)
                = "FAILED"

(***************************************************************************)
(* Properties of POST /upload-tracking.                                    *)
(***************************************************************************)
\* The entry at position i is the entry of item i of the body.
EntryOf(entry, item) ==
    /\ entry.order_id = item.order_id
    /\ entry.tracking_number = item.tracking_number
    /\ entry.carrier_code = item.carrier_code
    /\ entry.carrier_name = item.carrier_name
    /\ \/ entry.status = "SUCCESS" /\ entry.error = None /\ HasRequiredFields(item)
       \/ entry.status = "ERROR" /\ entry.error # None /\ Val(entry.error) # ""

\* C31: all along the request every item the loop has passed has exactly
\* one entry in tracking_updates, SUCCESS or ERROR with a reason, at its own
\* position; the response carries one entry per item of the body, whichever
\* items lack fields and whichever marketplace calls raise.
C31_OneEntryPerItem ==
    /\ uploadPc \in {"tracking", "status"} =>
           /\ uploadIdx \in 1..Len(tracking_data)
           /\ Len(tracking_updates) = uploadIdx - 1
    /\ \A i \in 1..Len(tracking_updates) : EntryOf(tracking_updates[i], tracking_data[i])
    /\ uploadPc = "done" =>
           /\ uploadResponse.tracking_updates = tracking_updates
           /\ Len(uploadResponse.tracking_updates) = Len(tracking_data)

\* A response to a body whose first item lacks a field and whose second
\* item failed at the marketplace, or the other way round.
C31_Witness ==
    /\ uploadPc = "done"
    /\ Len(tracking_data) = 2
    /\ \E i, j \in 1..2 :
           /\ i # j
           /\ ~HasRequiredFields(tracking_data[i])
           /\ HasRequiredFields(tracking_data[j])
           /\ uploadResponse.tracking_updates[j].status = "ERROR"

(***************************************************************************)
(* Properties of create_shipments_bulk.                                    *)
(***************************************************************************)
\* C32: the shipments a bulk call has made are in the relative order of the
\* input orders they were created for: each shipment is the shipment of
\* the order at its position, and the positions increase along the list.
C32_BulkPreservesInputOrder ==
    /\ \A i \in 1..Len(created) :
           /\ created[i].pos \in 1..Len(orders_data)
           /\ created[i].order_id = orders_data[created[i].pos].order_id
    /\ \A i, j \in 1..Len(created) : i < j => created[i].pos < created[j].pos

\* A GLS bulk call has returned the shipments of two different orders.
C32_Witness ==
    /\ bulkPc = "done"
    /\ bulkCarrier = "gls"
    /\ Len(created) = 2
    /\ created[1].order_id # created[2].order_id

(***************************************************************************)
(* Properties of the order storage service and of POST /post-to-carrier.   *)
(***************************************************************************)
\* C33: an order record, once created, is never removed: a lookup by the
\* order_id of any order ever stored returns a record.
C33_StoredOrderNeverRemoved ==
    \A order_id \in everStored : GetStoredOrder(storedOrders, order_id) # None

(***************************************************************************)
(* Properties of the tracking updates.                                     *)
(***************************************************************************)
\* The position of a status in the progression of a shipment; 0 for a
\* status not recorded yet.
StatusRank(status) ==
    IF status \in ReportedStatuses
    THEN CHOOSE i \in DOMAIN TrackingStatuses : TrackingStatuses[i] = status
    ELSE 0

\* C34: no tracking update, polled or delivered by webhook, moves the
\* carrier_status recorded for an order backward: an update that reports
\* an earlier status than the recorded one does not replace it.
C34_CarrierStatusNeverMovesBackward ==
    [][\A i \in 1..Len(csvRows), j \in 1..Len(csvRows') :
          csvRows'[j]["order_id"] = csvRows[i]["order_id"] =>
              StatusRank(Field(csvRows'[j], "carrier_status"))
                  >= StatusRank(Field(csvRows[i], "carrier_status"))]_vars


\* The TrackIDs GLS can have issued for shipments of one order.
TrackIdsOf(order_id) ==
    {TrackId(order_id, nth, mock) : nth \in 1..(MaxRuns + 1), mock \in BOOLEAN}

\* C35: every tracking number recorded for an order by mirakl-to-gls is the
\* TrackID of a shipment that was created for that same order, also when
\* the creation of other orders of the batch failed.
C35_TrackingBelongsToOrder ==
    \A i \in 1..Len(csvRows) :
        Field(csvRows[i], "tracking_number") # "" =>
            Field(csvRows[i], "tracking_number") \in TrackIdsOf(csvRows[i]["order_id"])


RecordedStatus(order_id) ==
    IF GetOrder(csvRows, order_id) = None THEN ""
    ELSE Field(Val(GetOrder(csvRows, order_id)), "carrier_status")

\* C37: while the poller runs, a status the carrier reports for a tracked
\* order that differs from the recorded carrier_status is eventually
\* recorded, provided carrier and marketplace calls eventually succeed.
C37_ChangeEventuallyRecorded ==
    \A order_id \in OrderIds :
        (running /\ RecordedStatus(order_id) \notin {"", CarrierReports(order_id)})
            ~> (RecordedStatus(order_id) = CarrierReports(order_id))


\* The call of caller p ends at this step with the given kind of result.
CallEnds(p, kind) ==
    /\ callPc[p] # "done"
    /\ callPc'[p] = "done"
    /\ callResult'[p].kind = kind

\* C38: a key enters the key cache only in the step in which a creation
\* for that key succeeds; a call that raises leaves the cache as it was, and
\* a call whose key is not in the cache is not answered from the cache but
\* attempts the creation.
C38_KeyCachedOnlyAfterSuccess ==
    [][/\ \A key \in idempotency_keys' \ idempotency_keys :
              \E p \in Callers : /\ CallEnds(p, "created")
                                 /\ GenerateIdempotencyKey(callOrder'[p]) = key
       /\ \A p \in Callers :
              CallEnds(p, "raised") => idempotency_keys' = idempotency_keys
       /\ \A p \in Callers :
              (callPc[p] = "idle" /\ callPc'[p] # "idle"
                  /\ GenerateIdempotencyKey(callOrder'[p]) \notin idempotency_keys)
              => /\ ~callHit'[p]
                 /\ callResult'[p].kind # "cached"]_vars

\* A creation raised and left its key out of the cache, and a later call
\* with the same fingerprint has posted a second creation request.
C38_Witness ==
    \E p, q \in Callers :
        /\ callResult[p].kind = "raised"
        /\ callPc[q] = "posted"
        /\ GenerateIdempotencyKey(callOrder[q]) = GenerateIdempotencyKey(callOrder[p])
        /\ GenerateIdempotencyKey(callOrder[q]) \notin idempotency_keys
        /\ createRequests[GenerateIdempotencyKey(callOrder[q])] = 2


RECURSIVE Flatten(_)
\* The orders of a sequence of pages, in order.
Flatten(batches) ==
    IF batches = <<>> THEN <<>> ELSE Head(batches) \o Flatten(Tail(batches))

C40_AtMostMaxRetriesPlusOnePuts ==
    /\ putsSent <= max_retries + 1
    /\ putPc = "sleep" => putResponse.status_code = 429 /\ attempt <= max_retries
    /\ putPc = "returned" => putResponse.status_code \notin {0, 429}
                             /\ putResponse.status_code < 400
    /\ (putPc = "put" /\ putsSent > 1) => putResponse.status_code = 429

\* Every request was answered 429 and the call raised after the last retry.
C40_Witness ==
    /\ putPc = "raised"
    /\ max_retries = 2
    /\ putResponse.status_code = 429
    /\ putsSent = max_retries + 1
    /\ attempt = max_retries + 1

====
